---- MODULE Spec2Model ----
(***************************************************************************)
(* A model of the collision BSP traversal of funnel-web                    *)
(* (src/src/collision_bsp.rs): the packed index codec, the point           *)
(* localization loop of leaf_index_for_point, point_inside_bsp and the     *)
(* structural validator bounds_check, over an abstract provider            *)
(* (the CollisionBSPFunctions trait's required accessors); and of the      *)
(* salted ID primitive (src/src/id.rs).                                    *)
(*                                                                         *)
(* Machine words are kept at their width.  TLC's integers stop at 2^31-1,  *)
(* so a u32 is a pair <<hi, lo>> of 16-bit limbs and a usize is a tuple of *)
(* UsizeBits/16 limbs, most significant first.                             *)
(***************************************************************************)
EXTENDS Integers, Sequences, FiniteSets, TLC

VARIABLES
    bsp,            \* the provider: six tables and their reported counts
    point,          \* the query point (Vector3D)
    pc,             \* where the caller is: "validate", "loop", "returned", "done", "idle"
    index,          \* leaf_index_for_point: `index` (usize)
    iter,           \* leaf_index_for_point: iterations of the for loop begun
    visited,        \* history: the indices passed to get_3d_node, in order
    leaf_result,    \* what leaf_index_for_point returned
    inside_result,  \* what point_inside_bsp returned
    bounds_result,  \* what bounds_check returned
    raw,            \* codec: the packed 32-bit value under test
    tuple3d,        \* codec: CollisionBSP3DNodeIndex(raw).as_tuple()
    tuple2d,        \* codec: CollisionBSP2DNodeIndex(raw).as_tuple()
    removed,        \* history: the record taken out of a validated dataset
    queries,        \* concurrent callers of point_inside_bsp: each one's locals
    salt,           \* ID: the const parameter SALT
    id_index,       \* ID: the usize given to from_usize
    id_raw,         \* ID: the u32 given to from_u32
    id_made,        \* ID: what from_usize(id_index) returned
    id_parsed,      \* ID: what from_u32(id_raw) returned
    id_reparsed,    \* ID: what from_u32 returned for the value of id_made
    id_of_index,    \* ID: what from_index returned for the Index under test
    id_view,        \* ID: is_null() and index() of the ID in id_made
    ascii_in,       \* ASCIIString: the constructor called and its argument
    ascii_out,      \* ASCIIString: what the constructor returned
    ascii_view,     \* ASCIIString: as_str() and string_len() of the value made
    nudge_in,       \* fix_decimal_rounding: `input`
    nudge_buf,      \* fix_decimal_rounding: `written`, the work buffer in use
    nudge_prepend,  \* fix_decimal_rounding: `prepend_one` at the assertion
    nudge_out,      \* fix_decimal_rounding: the value returned
    mode,           \* UTF8Replacer: CURRENT_REPLACER_MODE, the value in the lock
    lock,           \* UTF8Replacer: the lock word of CURRENT_REPLACER_MODE
    threads,        \* UTF8Replacer: each thread's call in progress
    last_set        \* history: the value of the last set_mode that completed

vars_bsp == <<bsp, point, pc, index, iter, visited, leaf_result, inside_result, bounds_result>>
vars_codec == <<raw, tuple3d, tuple2d>>
vars_removal == <<removed>>
vars_parallel == <<queries>>
vars_id == <<salt, id_index, id_raw, id_made, id_parsed, id_reparsed, id_of_index,
            id_view>>
vars_string == <<ascii_in, ascii_out, ascii_view>>
vars_nudge == <<nudge_in, nudge_buf, nudge_prepend, nudge_out>>
vars_mode == <<mode, lock, threads, last_set>>
vars_lib == <<vars_string, vars_nudge, vars_mode>>
vars == <<bsp, point, pc, index, iter, visited, leaf_result, inside_result, bounds_result,
          raw, tuple3d, tuple2d, removed, queries,
          salt, id_index, id_raw, id_made, id_parsed, id_reparsed, id_of_index, id_view,
          ascii_in, ascii_out, ascii_view,
          nudge_in, nudge_buf, nudge_prepend, nudge_out,
          mode, lock, threads, last_set>>

(***************************************************************************)
(* Machine words                                                           *)
(***************************************************************************)
\* Width of usize on the modelled target.
UsizeBits == 64

LimbBase == 2^16
LimbMax == LimbBase - 1
UsizeLimbs == UsizeBits \div 16

\* The usize whose value is the small natural n (n < 2^16).
ToUsize(n) == [i \in 1..UsizeLimbs |-> IF i = UsizeLimbs THEN n ELSE 0]
UsizeZero == ToUsize(0)
UsizeMaxValue == [i \in 1..UsizeLimbs |-> LimbMax]

\* A usize below 2^16, the only ones a table of the model can hold a record at.
IsSmall(u) == \A i \in 1..(UsizeLimbs - 1) : u[i] = 0
SmallValue(u) == u[UsizeLimbs]

\* The conversion keeping the low 16 bits only.
U32AsUsize_LowHalf(w) == [i \in 1..UsizeLimbs |-> IF i = UsizeLimbs THEN w[2] ELSE 0]

\* `x as usize` for a u32 x: zero extension.
U32AsUsize(w) ==
    [i \in 1..UsizeLimbs |->
        IF i = UsizeLimbs THEN w[2] ELSE IF i = UsizeLimbs - 1 THEN w[1] ELSE 0]

\* usize::checked_add: the sum, or overflow, by limbs with carry.
CarryInto(a, b) ==
    LET c[i \in 1..(UsizeLimbs + 1)] ==
            IF i = UsizeLimbs + 1 THEN 0 ELSE (a[i] + b[i] + c[i + 1]) \div LimbBase
    IN  c
checked_add(a, b) ==
    LET c == CarryInto(a, b)
    IN  [overflow |-> c[1] = 1,
         sum |-> [i \in 1..UsizeLimbs |-> (a[i] + b[i] + c[i + 1]) % LimbBase]]

\* r + 1 for a usize r below usize::MAX (the step of a Range<usize>).
UsizeSucc(r) == checked_add(r, ToUsize(1)).sum

\* Bitwise AND of two limbs.
RECURSIVE BitAnd(_, _)
BitAnd(a, b) ==
    IF a = 0 \/ b = 0 THEN 0
    ELSE (a % 2) * (b % 2) + 2 * BitAnd(a \div 2, b \div 2)

\* `a & b` on u32.
U32And(a, b) == <<BitAnd(a[1], b[1]), BitAnd(a[2], b[2])>>

\* 0xFFFFFFFF and 0x7FFFFFFF.
NullIndex == <<LimbMax, LimbMax>>
IndexMask == <<32767, LimbMax>>

(***************************************************************************)
(* Index codec                                                             *)
(***************************************************************************)
NoTuple == [some |-> FALSE, kind |-> "None", index |-> UsizeZero]
SomeTuple(k, i) == [some |-> TRUE, kind |-> k, index |-> i]

\* CollisionBSP3DNodeIndex::as_tuple with the null test dropped.
CollisionBSP3DNodeIndex_as_tuple_NoNull(self) ==
    LET idx == U32And(self, IndexMask)
    IN  SomeTuple(IF idx = self THEN "Node" ELSE "Leaf", U32AsUsize(idx))

\* CollisionBSP3DNodeIndex::as_tuple
CollisionBSP3DNodeIndex_as_tuple(self) ==
    IF self = NullIndex THEN NoTuple
    ELSE LET idx == U32And(self, IndexMask)
         IN  SomeTuple(IF idx = self THEN "Node" ELSE "Leaf", U32AsUsize(idx))

\* CollisionBSP2DNodeIndex::as_tuple with the index left unmasked.
CollisionBSP2DNodeIndex_as_tuple_NoMask(self) ==
    LET idx == U32And(self, IndexMask)
    IN  SomeTuple(IF idx = self THEN "Node" ELSE "Surface", U32AsUsize(self))

\* CollisionBSP2DNodeIndex::as_tuple
CollisionBSP2DNodeIndex_as_tuple(self) ==
    LET idx == U32And(self, IndexMask)
    IN  SomeTuple(IF idx = self THEN "Node" ELSE "Surface", U32AsUsize(idx))

(***************************************************************************)
(* Vectors and planes.  Components are small integers, which f32 holds     *)
(* exactly, so the f32 products, sums and differences are the integer ones.*)
(***************************************************************************)
\* Vector3D::dot
dot(self, other) == self[1] * other[1] + self[2] * other[2] + self[3] * other[3]

\* Plane3D::distance_to_point
distance_to_point(self, p) == dot(p, self.vector) - self.offset

(***************************************************************************)
(* The provider (required accessors of CollisionBSPFunctions).  A table is *)
(* a function from the indices that resolve to the records there; every    *)
(* other index is "absent" (None).  The reported counts are separate       *)
(* values: nothing in the trait ties them to what the accessors resolve.   *)
(***************************************************************************)
InTable(t, i) == IsSmall(i) /\ SmallValue(i) \in DOMAIN t
Entry(t, i) == t[SmallValue(i)]

has_3d_node(i) == InTable(bsp.nodes, i)
get_3d_node(i) == Entry(bsp.nodes, i)
get_3d_node_count == bsp.node_count
has_plane(i) == InTable(bsp.planes, i)
get_plane(i) == Entry(bsp.planes, i)
get_plane_count == bsp.plane_count
has_leaf(i) == InTable(bsp.leaves, i)
get_leaf(i) == Entry(bsp.leaves, i)
get_leaf_count == bsp.leaf_count
has_2d_node_reference(i) == InTable(bsp.refs, i)
get_2d_node_reference(i) == Entry(bsp.refs, i)
get_2d_node_reference_count == bsp.ref_count
has_2d_node(i) == InTable(bsp.nodes2d, i)
get_2d_node(i) == Entry(bsp.nodes2d, i)
get_2d_node_count == bsp.node2d_count
has_surface(i) == InTable(bsp.surfaces, i)
get_surface(i) == Entry(bsp.surfaces, i)
get_surface_count == bsp.surface_count

(***************************************************************************)
(* Results: Ok values and CollisionBSPError values, all [kind, index].     *)
(***************************************************************************)
Res(k, i) == [kind |-> k, index |-> i]
Pending == Res("Pending", UsizeZero)
OkUnit == Res("Ok", UsizeZero)
OkNone == Res("NotFound", UsizeZero)
OkSome(leaf) == Res("Leaf", leaf)
OkBool(b) == Res(IF b THEN "True" ELSE "False", UsizeZero)
ErrorKinds ==
    {"BSP3DNodeLoop", "Missing3DNode", "Missing2DNode", "Missing2DNodeReference",
     "BadLeaf", "Bad2DReference", "MissingPlane", "MissingLeaf", "MissingSurface"}
IsErr(r) == r.kind \in ErrorKinds

Max(a, b) == IF a >= b THEN a ELSE b

(***************************************************************************)
(* leaf_index_for_point                                                    *)
(***************************************************************************)
\* A range one longer than the code's.
LoopBudget_OneMore == get_3d_node_count + 1

\* The for loop's range: 0..self.get_3d_node_count().max(1)
LoopBudget == Max(get_3d_node_count, 1)

\* The side test with > for >=.
NextChild_Strict(node, plane, p) ==
    IF distance_to_point(plane, p) > 0 THEN node.front_child ELSE node.back_child

\* `next`: the child on the point's side of the node's plane.
NextChild(node, plane, p) ==
    IF distance_to_point(plane, p) >= 0 THEN node.front_child ELSE node.back_child

\* Running out of iterations reported as 'not found'.
LoopExhausted_NotFound(idx, fetched) == OkNone

\* The loop error carrying the node fetched last instead of `index`.
LoopExhausted_LastFetched(idx, fetched) == Res("BSP3DNodeLoop", fetched)

\* The value the function returns once the for loop has run out.
LoopExhausted(idx, fetched) == Res("BSP3DNodeLoop", idx)

\* An iteration that reports a missing plane under the node's index.
IterationOutcome_NodeIndexForPlane(i, p) ==
    IF ~has_3d_node(i) THEN [op |-> "Return", value |-> Res("Missing3DNode", i)]
    ELSE LET node == get_3d_node(i) IN
    IF ~has_plane(node.plane_index)
    THEN [op |-> "Return", value |-> Res("MissingPlane", i)]
    ELSE LET next == NextChild(node, get_plane(node.plane_index), p)
             t == CollisionBSP3DNodeIndex_as_tuple(next)
         IN  IF ~t.some THEN [op |-> "Return", value |-> OkNone]
             ELSE IF t.kind = "Leaf" THEN [op |-> "Return", value |-> OkSome(t.index)]
             ELSE [op |-> "Continue", value |-> Res("Node", t.index)]

\* What one iteration at node index i does: "Return" with a result, or
\* "Continue" with the next index.
IterationOutcome(i, p) ==
    IF ~has_3d_node(i) THEN [op |-> "Return", value |-> Res("Missing3DNode", i)]
    ELSE LET node == get_3d_node(i) IN
    IF ~has_plane(node.plane_index)
    THEN [op |-> "Return", value |-> Res("MissingPlane", node.plane_index)]
    ELSE LET next == NextChild(node, get_plane(node.plane_index), p)
             t == CollisionBSP3DNodeIndex_as_tuple(next)
         IN  IF ~t.some THEN [op |-> "Return", value |-> OkNone]
             ELSE IF t.kind = "Leaf" THEN [op |-> "Return", value |-> OkSome(t.index)]
             ELSE [op |-> "Continue", value |-> Res("Node", t.index)]

\* One pass through the body of the for loop.
LeafIteration ==
    /\ pc = "loop"
    /\ iter < LoopBudget
    /\ LET o == IterationOutcome(index, point) IN
        /\ iter' = iter + 1
        /\ visited' = Append(visited, index)
        /\ IF o.op = "Return"
           THEN /\ leaf_result' = o.value
                /\ pc' = "returned"
                /\ index' = index
           ELSE /\ index' = o.value.index
                /\ UNCHANGED <<leaf_result, pc>>
    /\ UNCHANGED <<bsp, point, inside_result, bounds_result>>
    /\ UNCHANGED <<vars_codec, vars_removal, vars_parallel, vars_id, vars_lib>>

\* The range is used up: Err(CollisionBSPError::BSP3DNodeLoop(index)).
LeafLoopExit ==
    /\ pc = "loop"
    /\ iter >= LoopBudget
    /\ leaf_result' = LoopExhausted(index, visited[Len(visited)])
    /\ pc' = "returned"
    /\ UNCHANGED <<bsp, point, index, iter, visited, inside_result, bounds_result>>
    /\ UNCHANGED <<vars_codec, vars_removal, vars_parallel, vars_id, vars_lib>>

(***************************************************************************)
(* point_inside_bsp: self.leaf_index_for_point(point).map(|e| e.is_some()) *)
(***************************************************************************)
\* The wrapper with is_none for is_some.
MapIsSome_IsNone(r) ==
    IF r.kind = "Leaf" THEN OkBool(FALSE)
    ELSE IF r.kind = "NotFound" THEN OkBool(TRUE)
    ELSE r

MapIsSome(r) ==
    IF r.kind = "Leaf" THEN OkBool(TRUE)
    ELSE IF r.kind = "NotFound" THEN OkBool(FALSE)
    ELSE r

PointInsideReturn ==
    /\ pc = "returned"
    /\ inside_result' = MapIsSome(leaf_result)
    /\ pc' = "done"
    /\ UNCHANGED <<bsp, point, index, iter, visited, leaf_result, bounds_result>>
    /\ UNCHANGED <<vars_codec, vars_removal, vars_parallel, vars_id, vars_lib>>

(***************************************************************************)
(* bounds_check                                                            *)
(***************************************************************************)
\* `for i in from..to { check(i)? }`: the first error, or Ok.  check maps each
\* index of the range to the outcome of the loop body for it.
RECURSIVE ForEach(_, _, _)
ForEach(check, from, to) ==
    IF from >= to THEN OkUnit
    ELSE LET e == check[from]
         IN  IF IsErr(e) THEN e ELSE ForEach(check, from + 1, to)

\* The closure refusing a child that leads back to the root, node 0.
Check3DChild_RootChildRejected(a) ==
    LET t == CollisionBSP3DNodeIndex_as_tuple(a) IN
    IF ~t.some THEN OkUnit
    ELSE IF t.kind = "Node"
         THEN IF t.index = UsizeZero THEN Res("BSP3DNodeLoop", t.index)
              ELSE IF has_3d_node(t.index) THEN OkUnit ELSE Res("Missing3DNode", t.index)
         ELSE IF has_leaf(t.index) THEN OkUnit ELSE Res("MissingLeaf", t.index)

\* The closure accepting a leaf child without looking the leaf up.
Check3DChild_LeafUnchecked(a) ==
    LET t == CollisionBSP3DNodeIndex_as_tuple(a) IN
    IF ~t.some THEN OkUnit
    ELSE IF t.kind = "Node"
         THEN IF has_3d_node(t.index) THEN OkUnit ELSE Res("Missing3DNode", t.index)
         ELSE OkUnit

\* The closure `check` of the 3D node loop.
Check3DChild(a) ==
    LET t == CollisionBSP3DNodeIndex_as_tuple(a) IN
    IF ~t.some THEN OkUnit
    ELSE IF t.kind = "Node"
         THEN IF has_3d_node(t.index) THEN OkUnit ELSE Res("Missing3DNode", t.index)
         ELSE IF has_leaf(t.index) THEN OkUnit ELSE Res("MissingLeaf", t.index)

\* The 3D node check looking at the children before the plane.
Check3DNode_ChildrenBeforePlane(n) ==
    IF ~has_3d_node(ToUsize(n)) THEN Res("Missing3DNode", ToUsize(n))
    ELSE LET node == get_3d_node(ToUsize(n))
             f == Check3DChild(node.front_child)
             b == Check3DChild(node.back_child)
         IN  IF IsErr(f) THEN f
             ELSE IF IsErr(b) THEN b
             ELSE IF ~has_plane(node.plane_index) THEN Res("MissingPlane", node.plane_index)
             ELSE OkUnit

\* Body of `for node in 0..bsp_3d_node_count.max(1)`.
Check3DNode(n) ==
    IF ~has_3d_node(ToUsize(n)) THEN Res("Missing3DNode", ToUsize(n))
    ELSE LET node == get_3d_node(ToUsize(n)) IN
    IF ~has_plane(node.plane_index) THEN Res("MissingPlane", node.plane_index)
    ELSE LET f == Check3DChild(node.front_child)
         IN  IF IsErr(f) THEN f ELSE Check3DChild(node.back_child)

\* Body of `for p in 0..self.get_plane_count()`.
CheckPlane(p) ==
    IF has_plane(ToUsize(p)) THEN OkUnit ELSE Res("MissingPlane", ToUsize(p))

\* The range loop reporting the index after the one that failed to resolve.
RECURSIVE CheckReferenceRange_ReportsNext(_, _)
CheckReferenceRange_ReportsNext(r, end) ==
    IF r = end THEN OkUnit
    ELSE IF ~has_2d_node_reference(r) THEN Res("Missing2DNodeReference", UsizeSucc(r))
    ELSE CheckReferenceRange_ReportsNext(UsizeSucc(r), end)

\* `for r in leaf.bsp_2d_node_reference_start..end`
RECURSIVE CheckReferenceRange(_, _)
CheckReferenceRange(r, end) ==
    IF r = end THEN OkUnit
    ELSE IF ~has_2d_node_reference(r) THEN Res("Missing2DNodeReference", r)
    ELSE CheckReferenceRange(UsizeSucc(r), end)

\* The leaf check with a wrapping sum in place of checked_add.
CheckLeaf_WrappingAdd(l) ==
    IF ~has_leaf(ToUsize(l)) THEN Res("MissingLeaf", ToUsize(l))
    ELSE LET leaf == get_leaf(ToUsize(l))
             end == checked_add(leaf.bsp_2d_node_reference_start,
                                leaf.bsp_2d_node_reference_count)
         IN  IF end.overflow THEN OkUnit
             ELSE CheckReferenceRange(leaf.bsp_2d_node_reference_start, end.sum)

\* Body of `for l in 0..=self.get_leaf_count()`.
CheckLeaf(l) ==
    IF ~has_leaf(ToUsize(l)) THEN Res("MissingLeaf", ToUsize(l))
    ELSE LET leaf == get_leaf(ToUsize(l))
             end == checked_add(leaf.bsp_2d_node_reference_start,
                                leaf.bsp_2d_node_reference_count)
         IN  IF end.overflow THEN Res("BadLeaf", ToUsize(l))
             ELSE CheckReferenceRange(leaf.bsp_2d_node_reference_start, end.sum)

\* The reference check letting a reference end on a surface that exists.
CheckReference_SurfaceAllowed(r) ==
    IF ~has_2d_node_reference(ToUsize(r)) THEN Res("Missing2DNodeReference", ToUsize(r))
    ELSE LET reference == get_2d_node_reference(ToUsize(r)) IN
    IF ~has_plane(reference.plane) THEN Res("MissingPlane", reference.plane)
    ELSE LET t == CollisionBSP2DNodeIndex_as_tuple(reference.node) IN
         IF t.kind = "Node"
         THEN IF has_2d_node(t.index) THEN OkUnit ELSE Res("Missing2DNode", t.index)
         ELSE IF has_surface(t.index) THEN OkUnit ELSE Res("Bad2DReference", ToUsize(r))

\* Body of `for r in 0..self.get_2d_node_reference_count()`.
CheckReference(r) ==
    IF ~has_2d_node_reference(ToUsize(r)) THEN Res("Missing2DNodeReference", ToUsize(r))
    ELSE LET reference == get_2d_node_reference(ToUsize(r)) IN
    IF ~has_plane(reference.plane) THEN Res("MissingPlane", reference.plane)
    ELSE LET t == CollisionBSP2DNodeIndex_as_tuple(reference.node) IN
         IF t.kind = "Node"
         THEN IF has_2d_node(t.index) THEN OkUnit ELSE Res("Missing2DNode", t.index)
         ELSE Res("Bad2DReference", ToUsize(r))

\* The 2D closure accepting a surface child without looking the surface up.
Check2DChild_SurfaceUnchecked(a) ==
    LET t == CollisionBSP2DNodeIndex_as_tuple(a) IN
    IF t.kind = "Node"
    THEN IF has_2d_node(t.index) THEN OkUnit ELSE Res("Missing2DNode", t.index)
    ELSE OkUnit

\* The closure `check` of the 2D node loop.
Check2DChild(a) ==
    LET t == CollisionBSP2DNodeIndex_as_tuple(a) IN
    IF t.kind = "Node"
    THEN IF has_2d_node(t.index) THEN OkUnit ELSE Res("Missing2DNode", t.index)
    ELSE IF has_surface(t.index) THEN OkUnit ELSE Res("MissingSurface", t.index)

\* Body of `for node in 0..self.get_2d_node_count()`.
Check2DNode(n) ==
    IF ~has_2d_node(ToUsize(n)) THEN Res("Missing2DNode", ToUsize(n))
    ELSE LET node == get_2d_node(ToUsize(n))
             l == Check2DChild(node.left_child)
         IN  IF IsErr(l) THEN l ELSE Check2DChild(node.right_child)

\* Body of `for s in 0..self.get_surface_count()`.
CheckSurface(s) ==
    IF ~has_surface(ToUsize(s)) THEN Res("MissingSurface", ToUsize(s))
    ELSE LET surface == get_surface(ToUsize(s)) IN
         IF has_plane(surface.plane) THEN OkUnit ELSE Res("MissingPlane", surface.plane)

\* The 3D node loop running only over the reported count.
Node3DRangeEnd_NoMax == get_3d_node_count

\* `0..bsp_3d_node_count.max(1)`: the end of the 3D node loop.
Node3DRangeEnd == Max(get_3d_node_count, 1)

\* The leaf loop stopping before the reported count.
LeafRangeEnd_Exclusive == get_leaf_count

\* `0..=self.get_leaf_count()`: one past the last index of the leaf loop.
LeafRangeEnd == get_leaf_count + 1

\* The function: the six loops in order, `?` returning the first error.
bounds_check ==
    LET nodes3d == Node3DRangeEnd
        leaves == LeafRangeEnd
        e1 == ForEach([i \in 0 .. nodes3d - 1 |-> Check3DNode(i)], 0, nodes3d)
        e2 == ForEach([i \in 0 .. get_plane_count - 1 |-> CheckPlane(i)],
                      0, get_plane_count)
        e3 == ForEach([i \in 0 .. leaves - 1 |-> CheckLeaf(i)], 0, leaves)
        e4 == ForEach([i \in 0 .. get_2d_node_reference_count - 1 |-> CheckReference(i)],
                      0, get_2d_node_reference_count)
        e5 == ForEach([i \in 0 .. get_2d_node_count - 1 |-> Check2DNode(i)],
                      0, get_2d_node_count)
        e6 == ForEach([i \in 0 .. get_surface_count - 1 |-> CheckSurface(i)],
                      0, get_surface_count)
    IN  IF IsErr(e1) THEN e1
        ELSE IF IsErr(e2) THEN e2
        ELSE IF IsErr(e3) THEN e3
        ELSE IF IsErr(e4) THEN e4
        ELSE IF IsErr(e5) THEN e5
        ELSE e6

\* The caller validates the loaded dataset, then queries it whatever the verdict.
BoundsCheck ==
    /\ pc = "validate"
    /\ bounds_result' = bounds_check
    /\ pc' = "loop"
    /\ UNCHANGED <<bsp, point, index, iter, visited, leaf_result, inside_result>>
    /\ UNCHANGED <<vars_codec, vars_removal, vars_parallel, vars_id, vars_lib>>

(***************************************************************************)
(* Applying the codec to one packed value                                  *)
(***************************************************************************)
NotDecoded == [some |-> FALSE, kind |-> "Pending", index |-> UsizeZero]

Decode3D ==
    /\ pc = "idle"
    /\ tuple3d = NotDecoded
    /\ tuple3d' = CollisionBSP3DNodeIndex_as_tuple(raw)
    /\ UNCHANGED <<raw, tuple2d>>
    /\ UNCHANGED <<vars_bsp, vars_removal, vars_parallel, vars_id, vars_lib>>

Decode2D ==
    /\ pc = "idle"
    /\ tuple2d = NotDecoded
    /\ tuple2d' = CollisionBSP2DNodeIndex_as_tuple(raw)
    /\ UNCHANGED <<raw, tuple3d>>
    /\ UNCHANGED <<vars_bsp, vars_removal, vars_parallel, vars_id, vars_lib>>

(***************************************************************************)
(* Inputs                                                                  *)
(***************************************************************************)
\* Largest count a provider reports for the table a family varies.
MaxCount == 2
\* Largest leaf index a 3D child names.
MaxLeafRef == 1
\* Packed values within CodecSpan of 0, of bit 31 and of 0xFFFFFFFF are decoded.
CodecSpan == 2
\* Longest 2D node reference table of the family that varies its length.
MaxRefTable == 9

RawNode(n) == <<0, n>>
RawLeaf(l) == <<32768, l>>
RawSurface(s) == <<32768, s>>

\* x >= 0 and y >= 1
PlaneX == [vector |-> <<1, 0, 0>>, offset |-> 0]
PlaneY == [vector |-> <<0, 1, 0>>, offset |-> 1]
\* On PlaneX and behind PlaneY; behind PlaneX and on PlaneY; in front of both.
Points == {<<0, 0, 0>>, <<-1, 1, 0>>, <<1, 2, 0>>}

Node3D(f, b, p) == [front_child |-> f, back_child |-> b, plane_index |-> p]
Leaf(s, c) == [bsp_2d_node_reference_start |-> s, bsp_2d_node_reference_count |-> c]
Reference(p, n) == [plane |-> p, node |-> n]
Node2D(l, r) == [left_child |-> l, right_child |-> r]
Surface(p) == [plane |-> p]

\* A dataset bounds_check accepts: one 3D node, two planes, a leaf with one
\* reference into a one-node 2D tree over one surface, and a leaf record at
\* index leaf_count.
Baseline ==
    [node_count |-> 1,
     nodes |-> (0 :> Node3D(RawLeaf(0), NullIndex, ToUsize(0))),
     plane_count |-> 2,
     planes |-> (0 :> PlaneX @@ 1 :> PlaneY),
     leaf_count |-> MaxLeafRef,
     leaves |-> [l \in 0..MaxLeafRef |-> Leaf(ToUsize(0), ToUsize(IF l = 0 THEN 1 ELSE 0))],
     ref_count |-> 1,
     refs |-> (0 :> Reference(ToUsize(0), RawNode(0))),
     node2d_count |-> 1,
     nodes2d |-> (0 :> Node2D(RawSurface(0), RawSurface(0))),
     surface_count |-> 1,
     surfaces |-> (0 :> Surface(ToUsize(0)))]

\* 3D node tables: two slots, children naming nodes 0..2 (2 never resolves),
\* leaves 0..MaxLeafRef or nothing, planes 0..2 (2 never resolves).
Children3D ==
    {RawNode(n) : n \in 0..2} \cup {RawLeaf(l) : l \in 0..MaxLeafRef} \cup {NullIndex}
Nodes3D ==
    {Node3D(f, b, ToUsize(p)) : f \in Children3D, b \in Children3D, p \in 0..2}
Family3D(d) ==
    \E s \in SUBSET (0..1) : \E t \in [s -> Nodes3D] : \E c \in 0..MaxCount :
        d = [Baseline EXCEPT !.nodes = t, !.node_count = c]

\* The other families vary one table at a time over two slots, the rest of the
\* dataset being the baseline.
UsizeSamples == {ToUsize(0), ToUsize(1), [UsizeMaxValue EXCEPT ![UsizeLimbs] = LimbMax - 1],
                 UsizeMaxValue}
Leaves == {Leaf(s, c) : s \in UsizeSamples, c \in {ToUsize(0), ToUsize(1), ToUsize(2), UsizeMaxValue}}
FamilyLeaves(d) ==
    \E s \in SUBSET (0..1) : \E t \in [s -> Leaves] : \E c \in 0..MaxCount :
        d = [Baseline EXCEPT !.leaves = t, !.leaf_count = c,
                             !.refs = [r \in 0..1 |-> Reference(ToUsize(0), RawNode(0))],
                             !.ref_count = 2]

\* A 3D node whose children name leaves that may be missing.
LeafChildren == {RawLeaf(l) : l \in 0..2} \cup {RawNode(0), NullIndex}
Family3DLeaves(d) ==
    \E f \in LeafChildren : \E b \in LeafChildren :
    \E s \in SUBSET (0..1) : \E c \in 0..1 :
        d = [Baseline EXCEPT !.nodes = (0 :> Node3D(f, b, ToUsize(0))),
                             !.leaves = [l \in s |-> Leaf(ToUsize(0), ToUsize(0))],
                             !.leaf_count = c]

FamilyPlanes(d) ==
    \E s \in SUBSET (0..1) : \E t \in [s -> {PlaneX, PlaneY}] : \E c \in 0..MaxCount :
        d = [Baseline EXCEPT !.planes = t, !.plane_count = c]

References ==
    {Reference(ToUsize(p), n) :
        p \in {0, 2}, n \in {RawNode(0), RawNode(1), RawSurface(0), NullIndex}}
FamilyReferences(d) ==
    \E s \in SUBSET (0..1) : \E t \in [s -> References] : \E c \in 0..MaxCount :
        d = [Baseline EXCEPT !.refs = t, !.ref_count = c]

Children2D == {RawNode(n) : n \in 0..2} \cup {RawSurface(0), RawSurface(1), NullIndex}
Nodes2D == {Node2D(l, r) : l \in Children2D, r \in Children2D}
FamilyNodes2D(d) ==
    \E s \in SUBSET (0..1) : \E t \in [s -> Nodes2D] : \E c \in 0..MaxCount :
        d = [Baseline EXCEPT !.nodes2d = t, !.node2d_count = c]

FamilySurfaces(d) ==
    \E s \in SUBSET (0..1) : \E t \in [s -> {Surface(ToUsize(p)) : p \in 0..2}] :
    \E c \in 0..MaxCount :
        d = [Baseline EXCEPT !.surfaces = t, !.surface_count = c]

\* 2D node reference tables of every length up to MaxRefTable, all records
\* well formed, under a leaf whose range is 5..8.
FamilyReferenceTable(d) ==
    \E n \in 0..MaxRefTable :
        d = [Baseline EXCEPT !.leaves[0] = Leaf(ToUsize(5), ToUsize(3)),
                             !.refs = [r \in 0..(n - 1) |-> Reference(ToUsize(0), RawNode(0))],
                             !.ref_count = n]

\* The datasets a behaviour may start from.
IsDataset(d) ==
    \/ Family3D(d)
    \/ Family3DLeaves(d)
    \/ FamilyPlanes(d)
    \/ FamilyLeaves(d)
    \/ FamilyReferences(d)
    \/ FamilyNodes2D(d)
    \/ FamilySurfaces(d)
    \/ FamilyReferenceTable(d)

QueryInit ==
    /\ pc = "validate"
    /\ index = UsizeZero
    /\ iter = 0
    /\ visited = <<>>
    /\ leaf_result = Pending
    /\ inside_result = Pending
    /\ bounds_result = Pending

CodecIdle ==
    /\ raw = NullIndex
    /\ tuple3d = NotDecoded
    /\ tuple2d = NotDecoded

\* No record has been taken out of the dataset.
NoRecord == [table |-> "none", index |-> UsizeZero]
RemovalIdle == removed = NoRecord

\* No concurrent callers.
ParallelIdle == queries = <<>>

\* An Option<ID<SALT>>: not yet computed, None, or Some(ID(value)).
IDPending == [kind |-> "Pending", value |-> <<0, 0>>]
IDNone == [kind |-> "None", value |-> <<0, 0>>]
IDSome(v) == [kind |-> "Some", value |-> v]

IDIdle ==
    /\ salt = 0
    /\ id_index = UsizeZero
    /\ id_raw = <<0, 0>>
    /\ id_made = IDPending
    /\ id_parsed = IDPending
    /\ id_reparsed = IDPending
    /\ id_of_index = IDPending
    /\ id_view = IDPending

\* An Option<ASCIIString<LEN>>: not yet computed, None, or Some(buffer).
StrPending == [kind |-> "Pending", bytes |-> <<>>]
StrNone == [kind |-> "None", bytes |-> <<>>]
StrSome(b) == [kind |-> "Some", bytes |-> b]

\* No constructor of ASCIIString has been called.
NoCall == [fn |-> "none", arg |-> <<>>]
NoView == [str |-> <<>>, len |-> 0, taken |-> FALSE]
StringIdle ==
    /\ ascii_in = NoCall
    /\ ascii_out = StrPending
    /\ ascii_view = NoView

\* fix_decimal_rounding has not been called.
NoFloat == [class |-> "none", negative |-> FALSE, text |-> <<>>]
NudgeIdle ==
    /\ nudge_in = NoFloat
    /\ nudge_buf = <<>>
    /\ nudge_prepend = FALSE
    /\ nudge_out = NoFloat

\* No thread uses the replacer; the lock is free and holds the initial mode.
ModeIdle ==
    /\ mode = "UTF8"
    /\ lock = [writer |-> FALSE, readers |-> 0]
    /\ threads = <<>>
    /\ last_set = "UTF8"

LibIdle == StringIdle /\ NudgeIdle /\ ModeIdle

Init ==
    /\ IsDataset(bsp)
    /\ point \in Points
    /\ QueryInit
    /\ CodecIdle
    /\ RemovalIdle
    /\ LibIdle
    /\ ParallelIdle
    /\ IDIdle

Next ==
    \/ BoundsCheck
    \/ LeafIteration
    \/ LeafLoopExit
    \/ PointInsideReturn

Spec == Init /\ [][Next]_vars

\* The codec on its own: a packed value is drawn and decoded both ways.
RawLimbsLow == (0..CodecSpan) \cup ((LimbMax - CodecSpan)..LimbMax)
RawLimbsHigh ==
    (0..CodecSpan) \cup ((32767 - CodecSpan)..(32768 + CodecSpan))
        \cup ((LimbMax - CodecSpan)..LimbMax)

CodecInit ==
    /\ raw \in RawLimbsHigh \X RawLimbsLow
    /\ tuple3d = NotDecoded
    /\ tuple2d = NotDecoded
    /\ bsp = Baseline
    /\ point = <<0, 0, 0>>
    /\ pc = "idle"
    /\ index = UsizeZero
    /\ iter = 0
    /\ visited = <<>>
    /\ leaf_result = Pending
    /\ inside_result = Pending
    /\ bounds_result = Pending
    /\ RemovalIdle
    /\ LibIdle
    /\ ParallelIdle
    /\ IDIdle

CodecNext == Decode3D \/ Decode2D

SpecCodec == CodecInit /\ [][CodecNext]_vars

(***************************************************************************)
(* Properties.  The packed values are read here by arithmetic on the       *)
(* limbs, not through the codec: bit 31 is the top bit of the high limb.   *)
(***************************************************************************)
IsNullRaw(w) == w[1] = 65535 /\ w[2] = 65535
Bit31(w) == w[1] >= 32768
\* raw & 0x7FFFFFFF, as a usize
Low31(w) == [i \in 1..UsizeLimbs |->
                IF i = UsizeLimbs THEN w[2]
                ELSE IF i = UsizeLimbs - 1 THEN w[1] % 32768 ELSE 0]
Returned == pc \in {"returned", "done"}

\* C2: decoding a 3D node index gives nothing exactly for 0xFFFFFFFF, and
\* otherwise (Node, raw & 0x7FFFFFFF) when bit 31 is clear and
\* (Leaf, raw & 0x7FFFFFFF) when it is set.
C2_Decode3D ==
    tuple3d # NotDecoded =>
        /\ ~tuple3d.some <=> IsNullRaw(raw)
        /\ ~IsNullRaw(raw) =>
              tuple3d = SomeTuple(IF Bit31(raw) THEN "Leaf" ELSE "Node", Low31(raw))

\* C2 witness: 0xFFFFFFFE has been decoded, to leaf 0x7FFFFFFE.
C2_Witness ==
    /\ raw = <<65535, 65534>>
    /\ tuple3d = SomeTuple("Leaf", Low31(<<65535, 65534>>))

\* C3: decoding a 2D node index always gives a pair: (Node, raw) when bit 31
\* is clear, (Surface, raw & 0x7FFFFFFF) when it is set; 0xFFFFFFFF is
\* (Surface, 0x7FFFFFFF).
C3_Decode2D ==
    tuple2d # NotDecoded =>
        /\ tuple2d.some
        /\ tuple2d = SomeTuple(IF Bit31(raw) THEN "Surface" ELSE "Node", Low31(raw))
        /\ ~Bit31(raw) => tuple2d.index[UsizeLimbs - 1] = raw[1]
        /\ IsNullRaw(raw) =>
              tuple2d = SomeTuple("Surface", [i \in 1..UsizeLimbs |->
                  IF i = UsizeLimbs THEN 65535 ELSE IF i = UsizeLimbs - 1 THEN 32767 ELSE 0])

\* C3 witness: 0xFFFFFFFF has been decoded in the 2D form, to a surface.
C3_Witness ==
    /\ IsNullRaw(raw)
    /\ tuple2d.some
    /\ tuple2d.kind = "Surface"

\* The node fetched in the latest iteration (the last index passed to get_3d_node).
LastFetched == visited[Len(visited)]
\* The child the point's side selects at 3D node i.
SideChild(i) ==
    LET node == bsp.nodes[SmallValue(i)]
        plane == bsp.planes[SmallValue(node.plane_index)]
        d == point[1] * plane.vector[1] + point[2] * plane.vector[2]
               + point[3] * plane.vector[3] - plane.offset
    IN  IF d >= 0 THEN node.front_child ELSE node.back_child

\* C5: the loop never begins more than max(node_count, 1) iterations, each
\* fetching one node; and on a dataset with no cycle a call that returns a
\* leaf or 'not found' has evaluated at most as many nodes as the table holds.
C5_IterationBound ==
    /\ iter <= Max(bsp.node_count, 1)
    /\ Len(visited) = iter
    /\ (Returned /\ leaf_result.kind \in {"Leaf", "NotFound"}) =>
          iter <= Cardinality(DOMAIN bsp.nodes)

\* C5 witness: a call that returned a leaf after using its whole budget of two.
C5_Witness ==
    /\ Returned
    /\ leaf_result.kind = "Leaf"
    /\ bsp.node_count = 2
    /\ iter = 2

\* C7 as claimed: the index carried by the 3D-node-loop error is the index of
\* the node fetched in the final iteration.
C7_ReportsLastVisited ==
    (Returned /\ leaf_result.kind = "BSP3DNodeLoop") => leaf_result.index = LastFetched

\* C7 as amended: the error carries the node index that the child chosen in
\* the final iteration decodes to, the node a further iteration would fetch.
C7_ReportsNextNode ==
    (Returned /\ leaf_result.kind = "BSP3DNodeLoop") =>
        /\ iter = Max(bsp.node_count, 1)
        /\ ~IsNullRaw(SideChild(LastFetched))
        /\ ~Bit31(SideChild(LastFetched))
        /\ leaf_result.index = Low31(SideChild(LastFetched))

\* C7 witness: the budget ran out at a node other than the one last fetched.
C7_Witness ==
    /\ Returned
    /\ leaf_result.kind = "BSP3DNodeLoop"
    /\ leaf_result.index # LastFetched

\* C8: an iteration whose node index i does not resolve ends the call with
\* Missing3DNode(i); one whose node resolves but whose plane index p does not
\* ends it with MissingPlane(p); neither yields a leaf or 'not found', and no
\* further iteration follows.
C8_LookupFailures ==
    \A k \in 1..Len(visited) :
        LET i == visited[k] IN
        IF ~(IsSmall(i) /\ SmallValue(i) \in DOMAIN bsp.nodes)
        THEN Returned /\ k = Len(visited) /\ leaf_result = Res("Missing3DNode", i)
        ELSE LET p == bsp.nodes[SmallValue(i)].plane_index IN
             ~(IsSmall(p) /\ SmallValue(p) \in DOMAIN bsp.planes) =>
                 Returned /\ k = Len(visited) /\ leaf_result = Res("MissingPlane", p)

\* C8 witness: the second iteration found its node but not the node's plane.
C8_Witness ==
    /\ Returned
    /\ Len(visited) = 2
    /\ leaf_result = Res("MissingPlane", ToUsize(2))

\* C9: point_inside_bsp returns Ok(true) exactly when leaf_index_for_point
\* returned a leaf, Ok(false) exactly when it returned 'not found', and the
\* same error when it failed.
C9_InsideMatchesLeaf ==
    pc = "done" =>
        /\ inside_result = OkBool(TRUE) <=> leaf_result.kind = "Leaf"
        /\ inside_result = OkBool(FALSE) <=> leaf_result.kind = "NotFound"
        /\ leaf_result.kind \notin {"Leaf", "NotFound"} =>
              /\ leaf_result.kind \in ErrorKinds
              /\ inside_result = leaf_result

\* C9 witness: a query that found leaf 1, reported as inside.
C9_Witness ==
    /\ pc = "done"
    /\ leaf_result = OkSome(ToUsize(1))
    /\ inside_result.kind = "True"

\* The 3D node indices the children of node i decode to.
NodeChildren(i) ==
    LET node == bsp.nodes[SmallValue(i)]
    IN  {Low31(c) : c \in {x \in {node.front_child, node.back_child} :
                              ~IsNullRaw(x) /\ ~Bit31(x)}}
Resolves3D(i) == IsSmall(i) /\ SmallValue(i) \in DOMAIN bsp.nodes

\* The node indices reachable from the indices in S along child references.
RECURSIVE ReachFrom(_)
ReachFrom(S) ==
    LET T == S \cup UNION {NodeChildren(i) : i \in {j \in S : Resolves3D(j)}}
    IN  IF T = S THEN S ELSE ReachFrom(T)
Reach == ReachFrom({UsizeZero})

\* Some node reachable from node 0 is reachable from its own children.
HasCycle == \E i \in Reach : Resolves3D(i) /\ i \in ReachFrom(NodeChildren(i))

\* Every node reachable from node 0 resolves, with its plane and its leaves.
ReachableResolves ==
    \A i \in Reach :
        /\ Resolves3D(i)
        /\ LET node == bsp.nodes[SmallValue(i)] IN
            /\ IsSmall(node.plane_index)
            /\ SmallValue(node.plane_index) \in DOMAIN bsp.planes
            /\ \A c \in {node.front_child, node.back_child} :
                  (~IsNullRaw(c) /\ Bit31(c)) =>
                      (IsSmall(Low31(c)) /\ SmallValue(Low31(c)) \in DOMAIN bsp.leaves)

\* The reference descent: the result and the nodes it passes, from node i.
RECURSIVE Descent(_)
Descent(i) ==
    LET c == SideChild(i) IN
    IF IsNullRaw(c) THEN [result |-> OkNone, path |-> <<i>>]
    ELSE IF Bit31(c) THEN [result |-> OkSome(Low31(c)), path |-> <<i>>]
    ELSE LET rest == Descent(Low31(c))
         IN  [result |-> rest.result, path |-> <<i>> \o rest.path]

FrontSelfLoop == 0 \in DOMAIN bsp.nodes /\ bsp.nodes[0].front_child = <<0, 0>>
\* Node 0's plane resolves and the point is on its front side or on it.
TakesFrontAtRoot ==
    /\ IsSmall(bsp.nodes[0].plane_index)
    /\ SmallValue(bsp.nodes[0].plane_index) \in DOMAIN bsp.planes
    /\ SideChild(UsizeZero) = bsp.nodes[0].front_child

\* C4 as claimed: with node 0's front child pointing back to node 0, the call
\* fails with BSP3DNodeLoop.
C4_SelfLoopFails ==
    (Returned /\ FrontSelfLoop) => leaf_result.kind = "BSP3DNodeLoop"

\* C4 as amended: with node 0's front child pointing back to node 0, a query
\* whose point takes the front child at node 0 stays on node 0, stops when the
\* max(node_count, 1) iterations are used up, and fails with BSP3DNodeLoop(0).
C4_SelfLoopFailsInFront ==
    (FrontSelfLoop /\ TakesFrontAtRoot) =>
        /\ index = UsizeZero
        /\ iter <= Max(bsp.node_count, 1)
        /\ pc = "loop" => leaf_result = Pending /\ ENABLED (LeafIteration \/ LeafLoopExit)
        /\ Returned =>
              /\ iter = Max(bsp.node_count, 1)
              /\ leaf_result = Res("BSP3DNodeLoop", UsizeZero)

\* C4 witness: such a query has failed after two iterations on node 0.
C4_Witness ==
    /\ FrontSelfLoop
    /\ TakesFrontAtRoot
    /\ Returned
    /\ visited = <<UsizeZero, UsizeZero>>
    /\ leaf_result.kind = "BSP3DNodeLoop"

\* C6 as claimed: the call fails with BSP3DNodeLoop only on a dataset whose
\* node graph reachable from node 0 contains a cycle.
C6_LoopOnlyOnCycle ==
    (Returned /\ leaf_result.kind = "BSP3DNodeLoop") => HasCycle

\* Index i (a usize) names a record of table t.
ResolvesIn(t, i) == IsSmall(i) /\ SmallValue(i) \in DOMAIN t
\* Every index of [start, start + count) names a record of table t.  A table
\* holds records below 2^16 only, so a range that resolves is a small one.
RangeResolvesIn(t, start, count) ==
    \/ count = UsizeZero
    \/ /\ IsSmall(start)
       /\ IsSmall(count)
       /\ \A r \in SmallValue(start)..(SmallValue(start) + SmallValue(count) - 1) :
              r \in DOMAIN t

\* Every reference of the records bounds_check is given to examine resolves:
\* the records below each table's count (for 3D nodes below max(count, 1),
\* for leaves up to and including leaf_count).
AllReferencesResolve ==
    /\ \A n \in 0..(Max(bsp.node_count, 1) - 1) :
          /\ n \in DOMAIN bsp.nodes
          /\ ResolvesIn(bsp.planes, bsp.nodes[n].plane_index)
          /\ \A c \in {bsp.nodes[n].front_child, bsp.nodes[n].back_child} :
                \/ IsNullRaw(c)
                \/ ~Bit31(c) /\ ResolvesIn(bsp.nodes, Low31(c))
                \/ Bit31(c) /\ ResolvesIn(bsp.leaves, Low31(c))
    /\ \A q \in 0..(bsp.plane_count - 1) : q \in DOMAIN bsp.planes
    /\ \A l \in 0..bsp.leaf_count :
          /\ l \in DOMAIN bsp.leaves
          /\ RangeResolvesIn(bsp.refs, bsp.leaves[l].bsp_2d_node_reference_start,
                             bsp.leaves[l].bsp_2d_node_reference_count)
    /\ \A r \in 0..(bsp.ref_count - 1) :
          /\ r \in DOMAIN bsp.refs
          /\ ResolvesIn(bsp.planes, bsp.refs[r].plane)
          /\ ~Bit31(bsp.refs[r].node)
          /\ ResolvesIn(bsp.nodes2d, Low31(bsp.refs[r].node))
    /\ \A n \in 0..(bsp.node2d_count - 1) :
          /\ n \in DOMAIN bsp.nodes2d
          /\ \A c \in {bsp.nodes2d[n].left_child, bsp.nodes2d[n].right_child} :
                \/ ~Bit31(c) /\ ResolvesIn(bsp.nodes2d, Low31(c))
                \/ Bit31(c) /\ ResolvesIn(bsp.surfaces, Low31(c))
    /\ \A x \in 0..(bsp.surface_count - 1) :
          /\ x \in DOMAIN bsp.surfaces
          /\ ResolvesIn(bsp.planes, bsp.surfaces[x].plane)

Tables == {"nodes", "planes", "leaves", "refs", "nodes2d", "surfaces"}

\* The 'missing ___' error of each table.
MissingKind(t) ==
    CASE t = "nodes" -> "Missing3DNode"
      [] t = "planes" -> "MissingPlane"
      [] t = "leaves" -> "MissingLeaf"
      [] t = "refs" -> "Missing2DNodeReference"
      [] t = "nodes2d" -> "Missing2DNode"
      [] t = "surfaces" -> "MissingSurface"

\* The records bounds_check is given to examine in each table: those below
\* the table's count (3D nodes below max(count, 1), leaves up to leaf_count).
Examined(t) ==
    DOMAIN bsp[t] \cap
        CASE t = "nodes" -> 0..(Max(bsp.node_count, 1) - 1)
          [] t = "planes" -> 0..(bsp.plane_count - 1)
          [] t = "leaves" -> 0..bsp.leaf_count
          [] t = "refs" -> 0..(bsp.ref_count - 1)
          [] t = "nodes2d" -> 0..(bsp.node2d_count - 1)
          [] t = "surfaces" -> 0..(bsp.surface_count - 1)

\* The packed child c names record k of the table its bit 31 selects.
ChildNames(c, bit31, k) == ~IsNullRaw(c) /\ Bit31(c) = bit31 /\ Low31(c) = ToUsize(k)

\* Index k lies in the reference range of leaf record leaf.
InLeafRange(leaf, k) ==
    LET start == leaf.bsp_2d_node_reference_start
        count == leaf.bsp_2d_node_reference_count
    IN  /\ IsSmall(start)
        /\ SmallValue(start) <= k
        /\ ~IsSmall(count) \/ k - SmallValue(start) < SmallValue(count)

\* Some examined record other than record k of table t itself points to it.
PointedTo(t, k) ==
    CASE t = "nodes" ->
            \E n \in Examined("nodes") \ {k} :
                \/ ChildNames(bsp.nodes[n].front_child, FALSE, k)
                \/ ChildNames(bsp.nodes[n].back_child, FALSE, k)
      [] t = "planes" ->
            \/ \E n \in Examined("nodes") : bsp.nodes[n].plane_index = ToUsize(k)
            \/ \E r \in Examined("refs") : bsp.refs[r].plane = ToUsize(k)
            \/ \E x \in Examined("surfaces") : bsp.surfaces[x].plane = ToUsize(k)
      [] t = "leaves" ->
            \E n \in Examined("nodes") :
                \/ ChildNames(bsp.nodes[n].front_child, TRUE, k)
                \/ ChildNames(bsp.nodes[n].back_child, TRUE, k)
      [] t = "refs" ->
            \E l \in Examined("leaves") : InLeafRange(bsp.leaves[l], k)
      [] t = "nodes2d" ->
            \/ \E r \in Examined("refs") : ChildNames(bsp.refs[r].node, FALSE, k)
            \/ \E n \in Examined("nodes2d") \ {k} :
                   \/ ChildNames(bsp.nodes2d[n].left_child, FALSE, k)
                   \/ ChildNames(bsp.nodes2d[n].right_child, FALSE, k)
      [] t = "surfaces" ->
            \E n \in Examined("nodes2d") :
                \/ ChildNames(bsp.nodes2d[n].left_child, TRUE, k)
                \/ ChildNames(bsp.nodes2d[n].right_child, TRUE, k)

\* The owner of the tables takes record k out of table t of a dataset that
\* bounds_check accepted (the accessor now answers None at k; the counts stay),
\* and has the dataset validated again.
RemoveRecord ==
    /\ pc = "loop"
    /\ iter = 0
    /\ bounds_result.kind = "Ok"
    /\ removed = NoRecord
    /\ \E t \in Tables : \E k \in DOMAIN bsp[t] :
          /\ PointedTo(t, k)
          /\ bsp' = [bsp EXCEPT ![t] = [i \in (DOMAIN @) \ {k} |-> @[i]]]
          /\ removed' = [table |-> t, index |-> ToUsize(k)]
    /\ pc' = "validate"
    /\ UNCHANGED <<point, index, iter, visited, leaf_result, inside_result, bounds_result>>
    /\ UNCHANGED <<vars_codec, vars_parallel, vars_id, vars_lib>>

RemovalInit ==
    /\ IsDataset(bsp)
    /\ point = <<0, 0, 0>>
    /\ QueryInit
    /\ CodecIdle
    /\ RemovalIdle
    /\ LibIdle
    /\ ParallelIdle
    /\ IDIdle

RemovalNext == BoundsCheck \/ RemoveRecord

SpecRemoval == RemovalInit /\ [][RemovalNext]_vars

\* The dataset has been validated again after the removal.
Revalidated == removed # NoRecord /\ pc = "loop"

C12_AcceptedNeverLoops ==
    bounds_result.kind = "Ok" =>
        /\ ~HasCycle
        /\ Returned => leaf_result.kind # "BSP3DNodeLoop"

\* C12 as amended: bounds_check looks at whether references resolve and at
\* nothing else.  A dataset all of whose examined references resolve is
\* accepted, cyclic or not; and on an accepted dataset whose node 0 has itself
\* as front child, a query taking the front side fails with BSP3DNodeLoop.
C12_AcceptsCyclesThatResolve ==
    /\ (bounds_result # Pending /\ AllReferencesResolve) => bounds_result.kind = "Ok"
    /\ (bounds_result.kind = "Ok" /\ Returned /\ FrontSelfLoop /\ TakesFrontAtRoot) =>
           leaf_result.kind = "BSP3DNodeLoop"

\* C12 witness: an accepted dataset whose node 0 is its own front child, on
\* which the query has failed with BSP3DNodeLoop.
C12_Witness ==
    /\ bounds_result.kind = "Ok"
    /\ AllReferencesResolve
    /\ FrontSelfLoop
    /\ HasCycle
    /\ Returned
    /\ leaf_result.kind = "BSP3DNodeLoop"

(***************************************************************************)
(* The contract of bounds_check read as a list: every violation of every   *)
(* examined record, in the order of the tables, of the records within a    *)
(* table and of the fields within a record.  Indices are read from the     *)
(* packed values by arithmetic.                                            *)
(***************************************************************************)
\* a < b on usize, most significant limb first.
UsizeLess(a, b) ==
    \E i \in 1..UsizeLimbs : a[i] < b[i] /\ \A j \in 1..(i - 1) : a[j] = b[j]
\* usize::MAX - a
UsizeComplement(a) == [i \in 1..UsizeLimbs |-> LimbMax - a[i]]
\* start + count exceeds usize::MAX.
SumOverflows(start, count) == UsizeLess(UsizeComplement(start), count)

\* The smallest index of [start, start + count) that names no record of table
\* t, for a range that does not overflow.
FirstUnresolved(t, start, count) ==
    IF count = UsizeZero THEN [found |-> FALSE, index |-> UsizeZero]
    ELSE IF ~IsSmall(start) THEN [found |-> TRUE, index |-> start]
    ELSE LET s == SmallValue(start)
             gap == CHOOSE n \in s..(s + Cardinality(DOMAIN t)) :
                        /\ n \notin DOMAIN t
                        /\ \A m \in s..(n - 1) : m \in DOMAIN t
         IN  IF ~IsSmall(count) \/ gap - s < SmallValue(count)
             THEN [found |-> TRUE, index |-> ToUsize(gap)]
             ELSE [found |-> FALSE, index |-> UsizeZero]

\* The violation, if any, of one index field.
MustResolve(t, i, kind) == IF ResolvesIn(t, i) THEN <<>> ELSE <<Res(kind, i)>>
Child3DViolations(c) ==
    IF IsNullRaw(c) THEN <<>>
    ELSE IF Bit31(c) THEN MustResolve(bsp.leaves, Low31(c), "MissingLeaf")
    ELSE MustResolve(bsp.nodes, Low31(c), "Missing3DNode")
Child2DViolations(c) ==
    IF Bit31(c) THEN MustResolve(bsp.surfaces, Low31(c), "MissingSurface")
    ELSE MustResolve(bsp.nodes2d, Low31(c), "Missing2DNode")

\* The violations of one record, in the order of its fields.
Node3DViolations(n) ==
    IF n \notin DOMAIN bsp.nodes THEN <<Res("Missing3DNode", ToUsize(n))>>
    ELSE MustResolve(bsp.planes, bsp.nodes[n].plane_index, "MissingPlane")
            \o Child3DViolations(bsp.nodes[n].front_child)
            \o Child3DViolations(bsp.nodes[n].back_child)
PlaneViolations(p) ==
    IF p \notin DOMAIN bsp.planes THEN <<Res("MissingPlane", ToUsize(p))>> ELSE <<>>
LeafViolations(l) ==
    IF l \notin DOMAIN bsp.leaves THEN <<Res("MissingLeaf", ToUsize(l))>>
    ELSE LET start == bsp.leaves[l].bsp_2d_node_reference_start
             count == bsp.leaves[l].bsp_2d_node_reference_count
         IN  IF SumOverflows(start, count) THEN <<Res("BadLeaf", ToUsize(l))>>
             ELSE LET u == FirstUnresolved(bsp.refs, start, count)
                  IN  IF u.found THEN <<Res("Missing2DNodeReference", u.index)>> ELSE <<>>
ReferenceViolations(r) ==
    IF r \notin DOMAIN bsp.refs THEN <<Res("Missing2DNodeReference", ToUsize(r))>>
    ELSE MustResolve(bsp.planes, bsp.refs[r].plane, "MissingPlane")
            \o (IF Bit31(bsp.refs[r].node) THEN <<Res("Bad2DReference", ToUsize(r))>>
                ELSE MustResolve(bsp.nodes2d, Low31(bsp.refs[r].node), "Missing2DNode"))
Node2DViolations(n) ==
    IF n \notin DOMAIN bsp.nodes2d THEN <<Res("Missing2DNode", ToUsize(n))>>
    ELSE Child2DViolations(bsp.nodes2d[n].left_child)
            \o Child2DViolations(bsp.nodes2d[n].right_child)
SurfaceViolations(x) ==
    IF x \notin DOMAIN bsp.surfaces THEN <<Res("MissingSurface", ToUsize(x))>>
    ELSE MustResolve(bsp.planes, bsp.surfaces[x].plane, "MissingPlane")

\* The violations of the records from..to of one table, in index order.
RECURSIVE Collect(_, _, _)
Collect(v, from, to) ==
    IF from > to THEN <<>> ELSE v[from] \o Collect(v, from + 1, to)

Violations3D(from, to) == Collect([n \in from..to |-> Node3DViolations(n)], from, to)
ViolationsPlanes(from, to) == Collect([p \in from..to |-> PlaneViolations(p)], from, to)
ViolationsLeaves(from, to) == Collect([l \in from..to |-> LeafViolations(l)], from, to)
ViolationsReferences(from, to) ==
    Collect([r \in from..to |-> ReferenceViolations(r)], from, to)
Violations2D(from, to) == Collect([n \in from..to |-> Node2DViolations(n)], from, to)
ViolationsSurfaces(from, to) ==
    Collect([x \in from..to |-> SurfaceViolations(x)], from, to)

\* Everything wrong with the dataset, in the order of the contract.
ViolationsBeforeLeaves ==
    Violations3D(0, Max(bsp.node_count, 1) - 1) \o ViolationsPlanes(0, bsp.plane_count - 1)
ViolationsAfterLeaves ==
    ViolationsReferences(0, bsp.ref_count - 1) \o Violations2D(0, bsp.node2d_count - 1)
        \o ViolationsSurfaces(0, bsp.surface_count - 1)
AllViolations ==
    ViolationsBeforeLeaves \o ViolationsLeaves(0, bsp.leaf_count) \o ViolationsAfterLeaves

\* The verdict for a list of violations: the first of them, or Ok.
FirstOf(violations) == IF violations = <<>> THEN OkUnit ELSE Head(violations)

\* bounds_check has just returned.
Validated == bounds_result # Pending /\ pc = "loop" /\ iter = 0

\* C13: when nothing examined before leaf l (l in 0..=leaf_count) is in
\* violation, bounds_check fails with MissingLeaf(l) if leaf l is absent, with
\* BadLeaf(l) if start + count overflows, otherwise with
\* Missing2DNodeReference(r) for the smallest r of [start, start + count) that
\* does not resolve; and a leaf with count 0 passes whatever its start, the
\* verdict being that of the records after it.
C13_LeafErrors ==
    Validated =>
        \A l \in 0..bsp.leaf_count :
            (ViolationsBeforeLeaves \o ViolationsLeaves(0, l - 1) = <<>>) =>
                IF l \notin DOMAIN bsp.leaves
                THEN bounds_result = Res("MissingLeaf", ToUsize(l))
                ELSE LET start == bsp.leaves[l].bsp_2d_node_reference_start
                         count == bsp.leaves[l].bsp_2d_node_reference_count
                         u == FirstUnresolved(bsp.refs, start, count)
                     IN  /\ SumOverflows(start, count) =>
                                bounds_result = Res("BadLeaf", ToUsize(l))
                         /\ (~SumOverflows(start, count) /\ u.found) =>
                                bounds_result = Res("Missing2DNodeReference", u.index)
                         /\ count = UsizeZero =>
                                bounds_result =
                                    FirstOf(ViolationsLeaves(l + 1, bsp.leaf_count)
                                                \o ViolationsAfterLeaves)

\* C13 witness: leaf 0 has start usize::MAX and count 0 and passes; leaf 1,
\* with a range that overflows, is reported as a bad leaf.
C13_Witness ==
    /\ Validated
    /\ 0 \in DOMAIN bsp.leaves
    /\ bsp.leaves[0] = Leaf(UsizeMaxValue, UsizeZero)
    /\ bsp.leaf_count >= 1
    /\ bounds_result = Res("BadLeaf", ToUsize(1))

\* The 2D node reference table has length n: records 0..n-1 and count n.
RefTableLength(n) == DOMAIN bsp.refs = 0..(n - 1) /\ bsp.ref_count = n
\* Leaf 0 has reference start 5 and count 3, and nothing else is in violation.
BoundaryLeaf ==
    /\ 0 \in DOMAIN bsp.leaves
    /\ bsp.leaves[0] = Leaf(ToUsize(5), ToUsize(3))
    /\ ViolationsBeforeLeaves \o ViolationsLeaves(1, bsp.leaf_count)
            \o ViolationsAfterLeaves = <<>>

\* C14 as claimed: with a reference table of length 6 the leaf 5..8 is
\* rejected with Missing2DNodeReference(7); with length 8 or more the dataset
\* is accepted.
C14_BoundaryReportsSeven ==
    (Validated /\ BoundaryLeaf) =>
        /\ RefTableLength(6) => bounds_result = Res("Missing2DNodeReference", ToUsize(7))
        /\ \A n \in 8..MaxRefTable : RefTableLength(n) => bounds_result = OkUnit

\* C14 as amended: with a reference table of length n below 8 the leaf 5..8
\* is rejected with Missing2DNodeReference at the first index of the range
\* outside the table (6 for length 6, 7 for length 7, 5 for lengths up to 5);
\* with length 8 or more the dataset is accepted.
C14_BoundaryReportsFirst ==
    (Validated /\ BoundaryLeaf) =>
        /\ RefTableLength(6) => bounds_result = Res("Missing2DNodeReference", ToUsize(6))
        /\ \A n \in 0..7 :
              RefTableLength(n) =>
                  bounds_result = Res("Missing2DNodeReference", ToUsize(Max(n, 5)))
        /\ \A n \in 8..MaxRefTable : RefTableLength(n) => bounds_result = OkUnit

\* C14 witness: the table of length 6 was rejected at index 6.
C14_Witness ==
    /\ Validated
    /\ BoundaryLeaf
    /\ RefTableLength(6)
    /\ bounds_result = Res("Missing2DNodeReference", ToUsize(6))

\* C15: when nothing examined before 2D node reference r (r below the
\* reference count) is in violation, bounds_check fails with
\* Missing2DNodeReference(r) if r is absent, else MissingPlane(p) if its plane
\* p does not resolve, else Bad2DReference(r) if its child has bit 31 set
\* (a surface, existing or not), else Missing2DNode(n) if its child, 2D node
\* n, does not resolve.
C15_ReferenceErrors ==
    Validated =>
        \A r \in 0..(bsp.ref_count - 1) :
            (ViolationsBeforeLeaves \o ViolationsLeaves(0, bsp.leaf_count)
                \o ViolationsReferences(0, r - 1) = <<>>) =>
                IF r \notin DOMAIN bsp.refs
                THEN bounds_result = Res("Missing2DNodeReference", ToUsize(r))
                ELSE LET p == bsp.refs[r].plane
                         c == bsp.refs[r].node
                     IN  IF ~ResolvesIn(bsp.planes, p)
                         THEN bounds_result = Res("MissingPlane", p)
                         ELSE IF Bit31(c)
                         THEN bounds_result = Res("Bad2DReference", ToUsize(r))
                         ELSE ~ResolvesIn(bsp.nodes2d, Low31(c)) =>
                                  bounds_result = Res("Missing2DNode", Low31(c))

\* C15 witness: reference 1 ends on surface 0, which exists, and is reported
\* as a bad reference.
C15_Witness ==
    /\ Validated
    /\ 1 \in DOMAIN bsp.refs
    /\ bsp.refs[1].node = <<32768, 0>>
    /\ 0 \in DOMAIN bsp.surfaces
    /\ bounds_result = Res("Bad2DReference", ToUsize(1))

\* C16: bounds_check returns Ok on a dataset with no violation and otherwise
\* exactly the first violation in the order 3D nodes (node, plane, front
\* child, back child), planes, leaves, 2D node references, 2D nodes (node,
\* left child, right child), surfaces, whatever follows it; a null 3D child
\* is no violation.
C16_FirstViolationOnly ==
    Validated => bounds_result = FirstOf(AllViolations)

\* C16 witness: node 0 has a null back child, a plane that does not resolve
\* and a front child that does not resolve; only the plane is reported.
C16_Witness ==
    /\ Validated
    /\ 0 \in DOMAIN bsp.nodes
    /\ IsNullRaw(bsp.nodes[0].back_child)
    /\ Len(AllViolations) >= 2
    /\ AllViolations[1].kind = "MissingPlane"
    /\ AllViolations[2].kind = "Missing3DNode"
    /\ bounds_result = AllViolations[1]

\* Encoding a pair: index | (kind bit << 31), for a 31-bit index given as its
\* high 15 bits and low 16 bits.
Encode(kindBit, indexHigh, indexLow) == <<indexHigh + 32768 * kindBit, indexLow>>
\* The 31-bit index as a usize.
IndexValue(indexHigh, indexLow) ==
    [i \in 1..UsizeLimbs |->
        IF i = UsizeLimbs THEN indexLow ELSE IF i = UsizeLimbs - 1 THEN indexHigh ELSE 0]
\* The 31-bit indices whose encodings are among the packed values decoded.
IndexHighs == {h \in RawLimbsHigh : h < 32768}
\* The pair (kindBit, index) goes through the 3D (2D) form unchanged.
RoundTrip3D(kindBit, indexHigh, indexLow) ==
    (raw = Encode(kindBit, indexHigh, indexLow) /\ tuple3d # NotDecoded) =>
        tuple3d = SomeTuple(IF kindBit = 1 THEN "Leaf" ELSE "Node",
                            IndexValue(indexHigh, indexLow))
RoundTrip2D(kindBit, indexHigh, indexLow) ==
    (raw = Encode(kindBit, indexHigh, indexLow) /\ tuple2d # NotDecoded) =>
        tuple2d = SomeTuple(IF kindBit = 1 THEN "Surface" ELSE "Node",
                            IndexValue(indexHigh, indexLow))

\* C17 as claimed: every pair of a kind and a 31-bit index is decoded, in
\* both forms, from its encoding; and 0xFFFFFFFF is 'no child' in the 3D form.
C17_RoundTripAllPairs ==
    /\ \A k \in {0, 1} : \A h \in IndexHighs : \A l \in RawLimbsLow :
          RoundTrip3D(k, h, l) /\ RoundTrip2D(k, h, l)
    /\ (raw = NullIndex /\ tuple3d # NotDecoded) => tuple3d = NoTuple

\* C17 as amended: the same, except that in the 3D form the pair
\* (Leaf, 0x7FFFFFFF) does not come back: its encoding is 0xFFFFFFFF, which
\* decodes to 'no child'.
C17_RoundTripExceptNull ==
    /\ \A k \in {0, 1} : \A h \in IndexHighs : \A l \in RawLimbsLow :
          /\ Encode(k, h, l) # NullIndex => RoundTrip3D(k, h, l)
          /\ RoundTrip2D(k, h, l)
    /\ Encode(1, 32767, 65535) = NullIndex
    /\ (raw = NullIndex /\ tuple3d # NotDecoded) => tuple3d = NoTuple

\* C17 witness: (Leaf, 0x7FFFFFFE) and (Surface, 0x7FFFFFFE) came back from
\* their encoding 0xFFFFFFFE.
C17_Witness ==
    /\ raw = Encode(1, 32767, 65534)
    /\ tuple3d = SomeTuple("Leaf", IndexValue(32767, 65534))
    /\ tuple2d = SomeTuple("Surface", IndexValue(32767, 65534))

(***************************************************************************)
(* Several callers of point_inside_bsp at once over the same provider.     *)
(* Each call has its own point, `index` and loop counter; a step of a call *)
(* is one pass through the loop body, which reads the tables.              *)
(***************************************************************************)
\* Number of concurrent callers.
NumQueries == 2

\* A call at its entry.
NewQuery(p) ==
    [point |-> p, index |-> UsizeZero, iter |-> 0, fetched |-> UsizeZero,
     result |-> Pending, inside |-> Pending]

\* A variable `index` that all the calls share.
QueryIndex_Shared(q) == queries[1].index

\* The local variable `index` of call q.
QueryIndex(q) == queries[q].index

\* Call q makes one pass through the loop body.
ParallelIteration(q) ==
    /\ pc = "parallel"
    /\ queries[q].result = Pending
    /\ queries[q].iter < LoopBudget
    /\ LET i == QueryIndex(q)
           o == IterationOutcome(i, queries[q].point)
       IN  queries' =
             [queries EXCEPT ![q] =
                IF o.op = "Return"
                THEN [@ EXCEPT !.iter = @ + 1, !.fetched = i,
                               !.result = o.value, !.inside = MapIsSome(o.value)]
                ELSE [@ EXCEPT !.iter = @ + 1, !.fetched = i, !.index = o.value.index]]
    /\ UNCHANGED <<vars_bsp, vars_codec, vars_removal, vars_id, vars_lib>>

\* Call q has used up its range.
ParallelLoopExit(q) ==
    /\ pc = "parallel"
    /\ queries[q].result = Pending
    /\ queries[q].iter >= LoopBudget
    /\ LET r == LoopExhausted(QueryIndex(q), queries[q].fetched)
       IN  queries' = [queries EXCEPT ![q] = [@ EXCEPT !.result = r, !.inside = MapIsSome(r)]]
    /\ UNCHANGED <<vars_bsp, vars_codec, vars_removal, vars_id, vars_lib>>

\* Another thread validates the dataset meanwhile.
ParallelBoundsCheck ==
    /\ pc = "parallel"
    /\ bounds_result = Pending
    /\ bounds_result' = bounds_check
    /\ UNCHANGED <<bsp, point, pc, index, iter, visited, leaf_result, inside_result>>
    /\ UNCHANGED <<vars_codec, vars_removal, vars_parallel, vars_id, vars_lib>>

\* Two-node tables: node 0 with any children, node 1 with any front child.
FamilyParallel(d) ==
    \E f0 \in Children3D : \E b0 \in Children3D : \E f1 \in Children3D :
    \E c \in 1..MaxCount :
        d = [Baseline EXCEPT !.nodes = (0 :> Node3D(f0, b0, ToUsize(0))
                                         @@ 1 :> Node3D(f1, NullIndex, ToUsize(1))),
                             !.node_count = c]

\* The points of the concurrent calls: one on each side of the plane of node 0.
ParallelPoints == {p \in Points : p[1] <= 0}

ParallelInit ==
    /\ FamilyParallel(bsp)
    /\ queries \in [1..NumQueries -> {NewQuery(p) : p \in ParallelPoints}]
    /\ pc = "parallel"
    /\ point = <<0, 0, 0>>
    /\ index = UsizeZero
    /\ iter = 0
    /\ visited = <<>>
    /\ leaf_result = Pending
    /\ inside_result = Pending
    /\ bounds_result = Pending
    /\ CodecIdle
    /\ RemovalIdle
    /\ LibIdle
    /\ IDIdle

ParallelNext ==
    \/ \E q \in 1..NumQueries : ParallelIteration(q)
    \/ \E q \in 1..NumQueries : ParallelLoopExit(q)
    \/ ParallelBoundsCheck

SpecParallel == ParallelInit /\ [][ParallelNext]_vars

\* What leaf_index_for_point returns for point p when it runs alone: the
\* result after n iterations have brought it to node i, node g fetched last.
RECURSIVE RunAlone(_, _, _, _)
RunAlone(p, i, n, g) ==
    IF n >= LoopBudget THEN LoopExhausted(i, g)
    ELSE LET o == IterationOutcome(i, p)
         IN  IF o.op = "Return" THEN o.value ELSE RunAlone(p, o.value.index, n + 1, i)
Alone(p) == RunAlone(p, UsizeZero, 0, UsizeZero)

\* Every call that has returned returned what it returns alone.
ResultsAsAlone ==
    \A q \in DOMAIN queries :
        queries[q].result # Pending =>
            /\ queries[q].result = Alone(queries[q].point)
            /\ queries[q].inside = MapIsSome(Alone(queries[q].point))

\* C18: no step of leaf_index_for_point, point_inside_bsp or bounds_check
\* changes the provider's tables, and however the steps of concurrent queries
\* interleave, each query returns what it returns when run alone.
C18_QueriesIndependent ==
    /\ []ResultsAsAlone
    /\ [][bsp' = bsp]_vars

\* C18 witness: two queries with different points ran at once over the same
\* tables and returned different leaves, the dataset being validated meanwhile.
C18_Witness ==
    /\ pc = "parallel"
    /\ queries[1].point # queries[2].point
    /\ queries[1].result.kind = "Leaf"
    /\ queries[2].result.kind = "Leaf"
    /\ queries[1].result # queries[2].result
    /\ queries[1].iter = 2
    /\ bounds_result.kind = "Ok"

(***************************************************************************)
(* ID<SALT> (src/src/id.rs).  An ID is its u32, a pair <<hi, lo>> of 16-bit *)
(* halves: hi holds the salted half, lo the index.                         *)
(***************************************************************************)
\* Bitwise XOR and OR of two 16-bit values.
RECURSIVE BitXor(_, _)
BitXor(a, b) ==
    IF a = 0 THEN b
    ELSE IF b = 0 THEN a
    ELSE ((a + b) % 2) + 2 * BitXor(a \div 2, b \div 2)
RECURSIVE BitOr(_, _)
BitOr(a, b) ==
    IF a = 0 THEN b
    ELSE IF b = 0 THEN a
    ELSE (IF a % 2 = 1 \/ b % 2 = 1 THEN 1 ELSE 0) + 2 * BitOr(a \div 2, b \div 2)

\* pub const NULL_ID: u32 = 0xFFFFFFFF
NULL_ID == <<LimbMax, LimbMax>>

\* ID::as_u32
as_u32(id) == id

\* `index as u16` and `id as u16`: the low 16 bits.
UsizeAsU16(i) == i[UsizeLimbs]
U32AsU16(w) == w[2]

\* id_from_index_value without the `| 0x8000`.
id_from_index_value_NoTopBit(S, value) == <<BitXor(S, value), value>>

\* ID::id_from_index_value: ((SALT ^ value) | 0x8000) << 16 | value
id_from_index_value(S, value) == <<BitOr(BitXor(S, value), 32768), value>>

\* ID::from_usize; `index > u16::MAX as usize` is a nonzero limb above the lowest.
ID_from_usize(S, i) ==
    IF ~IsSmall(i) THEN IDNone
    ELSE IDSome(id_from_index_value(S, UsizeAsU16(i)))

\* ID::from_u32 taking only 0xFFFFFFFF, not 0, for null.
ID_from_u32_ZeroNotNull(S, id) ==
    IF id = NULL_ID THEN IDSome(NULL_ID)
    ELSE LET made == id_from_index_value(S, U32AsU16(id))
         IN  IF as_u32(made) = id THEN IDSome(made) ELSE IDNone

\* ID::from_u32
ID_from_u32(S, id) ==
    IF id = <<0, 0>> \/ id = NULL_ID THEN IDSome(NULL_ID)
    ELSE LET made == id_from_index_value(S, U32AsU16(id))
         IN  IF as_u32(made) = id THEN IDSome(made) ELSE IDNone

\* ID::<SALT>::from_usize(id_index)
FromUsize ==
    /\ pc = "id"
    /\ id_made = IDPending
    /\ id_made' = ID_from_usize(salt, id_index)
    /\ UNCHANGED <<salt, id_index, id_raw, id_parsed, id_reparsed, id_of_index, id_view>>
    /\ UNCHANGED <<vars_bsp, vars_codec, vars_removal, vars_parallel, vars_lib>>

\* ID::<SALT>::from_u32(id_raw)
FromU32 ==
    /\ pc = "id"
    /\ id_parsed = IDPending
    /\ id_parsed' = ID_from_u32(salt, id_raw)
    /\ UNCHANGED <<salt, id_index, id_raw, id_made, id_reparsed, id_of_index, id_view>>
    /\ UNCHANGED <<vars_bsp, vars_codec, vars_removal, vars_parallel, vars_lib>>

\* ID::<SALT>::from_u32(id.as_u32()) for the ID that from_usize returned.
FromU32OfMade ==
    /\ pc = "id"
    /\ id_made.kind = "Some"
    /\ id_reparsed = IDPending
    /\ id_reparsed' = ID_from_u32(salt, as_u32(id_made.value))
    /\ UNCHANGED <<salt, id_index, id_raw, id_made, id_parsed, id_of_index, id_view>>
    /\ UNCHANGED <<vars_bsp, vars_codec, vars_removal, vars_parallel, vars_lib>>

\* 16-bit values within IDSpan of 0, of bit 15 and of 0xFFFF are tried.
IDSpan == 1
HalfSamples ==
    (0..IDSpan) \cup ((32767 - IDSpan)..(32768 + IDSpan)) \cup ((LimbMax - IDSpan)..LimbMax)
\* Salts: 0, 0x8000, TagID's 0x6174, ScriptNodeID's 0x6373, 0xFFFF.
Salts == {0, 32768, 24948, 25459, LimbMax}
\* Indices up to 65535, and beyond: 65536, 65537, 2^48 and usize::MAX.
IndexSamples ==
    {ToUsize(v) : v \in HalfSamples}
        \cup {[ToUsize(v) EXCEPT ![UsizeLimbs - 1] = 1] : v \in 0..IDSpan}
        \cup {[UsizeZero EXCEPT ![1] = 1], UsizeMaxValue}
\* u32 values: under each low half, the upper halves 0 and 0xFFFF, the right
\* one for each salt, that one without its top bit and that one off by one bit.
UpperHalves(l) ==
    {0, LimbMax}
        \cup {BitOr(BitXor(S, l), 32768) : S \in Salts}
        \cup {BitOr(BitXor(S, l), 32768) - 32768 : S \in Salts}
        \cup {BitXor(BitOr(BitXor(S, l), 32768), 1) : S \in Salts}
RawSamples == UNION {{<<h, l>> : h \in UpperHalves(l)} : l \in HalfSamples}

IDInit ==
    /\ salt \in Salts
    /\ \/ id_index \in IndexSamples /\ id_raw = <<0, 0>>
       \/ id_index = UsizeZero /\ id_raw \in RawSamples
    /\ id_made = IDPending
    /\ id_parsed = IDPending
    /\ id_reparsed = IDPending
    /\ id_of_index = IDPending
    /\ id_view = IDPending
    /\ pc = "id"
    /\ bsp = Baseline
    /\ point = <<0, 0, 0>>
    /\ index = UsizeZero
    /\ iter = 0
    /\ visited = <<>>
    /\ leaf_result = Pending
    /\ inside_result = Pending
    /\ bounds_result = Pending
    /\ CodecIdle
    /\ RemovalIdle
    /\ LibIdle
    /\ ParallelIdle

IDNext == FromUsize \/ FromU32 \/ FromU32OfMade

SpecID == IDInit /\ [][IDNext]_vars

\* The salted upper half for index half v, by arithmetic on the bits: bit k
\* of SALT xor v is the sum of the two bits modulo 2, and bit 15 is then set.
SaltedHalf(S, v) ==
    LET x[k \in 0..16] ==
            IF k = 16 THEN 0
            ELSE (((S \div 2^k) + (v \div 2^k)) % 2) * 2^k + x[k + 1]
    IN  IF x[0] >= 32768 THEN x[0] ELSE x[0] + 32768

\* C19: for an index i of at most 65535, from_usize(i) is the ID of value
\* (((SALT xor i) | 0x8000) << 16) | i, and from_u32 of that value is the same
\* ID; for a larger index from_usize returns None.
C19_FromUsize ==
    id_made # IDPending =>
        IF IsSmall(id_index)
        THEN /\ id_made = IDSome(<<SaltedHalf(salt, SmallValue(id_index)),
                                   SmallValue(id_index)>>)
             /\ id_reparsed # IDPending => id_reparsed = id_made
        ELSE id_made = IDNone

\* C19 witness: TagID::from_usize(1) is 0xE1750001 and from_u32 gives it back.
C19_Witness ==
    /\ salt = 24948
    /\ id_index = ToUsize(1)
    /\ id_made = IDSome(<<57717, 1>>)
    /\ id_reparsed = id_made

\* C20: from_u32(v) is the null ID for v = 0 and v = 0xFFFFFFFF; for any other
\* v it is None exactly when the upper half of v is not
\* (SALT xor low16(v)) | 0x8000, and otherwise an ID whose as_u32() is v.
C20_FromU32 ==
    id_parsed # IDPending =>
        IF id_raw = <<0, 0>> \/ id_raw = <<65535, 65535>>
        THEN id_parsed = IDSome(<<65535, 65535>>)
        ELSE /\ id_parsed = IDNone <=> id_raw[1] # SaltedHalf(salt, id_raw[2])
             /\ id_parsed # IDNone => id_parsed = IDSome(id_raw)

\* C20 witness: a value whose upper half is the right one but for bit 15 has
\* been refused.
C20_Witness ==
    /\ id_raw[1] = SaltedHalf(salt, id_raw[2]) - 32768
    /\ id_raw # <<0, 0>>
    /\ id_parsed = IDNone


(***************************************************************************)
(* ID::is_null, ID::index, ID::from_index and Index, run for TagID and     *)
(* ScriptNodeID on every index a u16 can hold.                             *)
(***************************************************************************)
\* pub type TagID = ID<0x6174>; pub type ScriptNodeID = ID<0x6373>
TagID == 24948
ScriptNodeID == 25459

\* An Option<usize>.
NoIndex == [some |-> FALSE, value |-> UsizeZero]
SomeIndex(i) == [some |-> TRUE, value |-> i]

\* ID::is_null
ID_is_null(id) == id = NULL_ID

\* ID::index without the `& (u16::MAX as u32)`.
ID_index_NoMask(id) ==
    IF id = NULL_ID THEN NoIndex ELSE SomeIndex(U32AsUsize(id))

\* ID::index
ID_index(id) ==
    IF id = NULL_ID THEN NoIndex
    ELSE SomeIndex(U32AsUsize(U32And(id, <<0, LimbMax>>)))

\* Index::new, Index::is_null, Index::index: an Index is its u16.
Index_new == LimbMax
Index_is_null(k) == k = LimbMax
Index_index(k) == IF Index_is_null(k) THEN NoIndex ELSE SomeIndex(ToUsize(k))

\* ID::from_index
ID_from_index(S, k) ==
    IF ~Index_index(k).some THEN NULL_ID
    ELSE id_from_index_value(S, UsizeAsU16(Index_index(k).value))

\* id.is_null() and id.index() for the ID that from_usize returned.
ViewMade ==
    /\ pc = "id"
    /\ id_made.kind = "Some"
    /\ id_view = IDPending
    /\ id_view' = [kind |-> "Some",
                   is_null |-> ID_is_null(id_made.value),
                   index |-> ID_index(id_made.value)]
    /\ UNCHANGED <<salt, id_index, id_raw, id_made, id_parsed, id_reparsed, id_of_index>>
    /\ UNCHANGED <<vars_bsp, vars_codec, vars_removal, vars_parallel, vars_lib>>

\* ID::<SALT>::from_index(Index(id_index as u16)), then is_null() and index().
FromIndex ==
    /\ pc = "id"
    /\ id_view # IDPending
    /\ id_of_index = IDPending
    /\ LET k == UsizeAsU16(id_index)
           id == ID_from_index(salt, k)
       IN id_of_index' = [kind |-> "Some", from |-> k, value |-> id,
                          is_null |-> ID_is_null(id), index |-> ID_index(id)]
    /\ UNCHANGED <<salt, id_index, id_raw, id_made, id_parsed, id_reparsed, id_view>>
    /\ UNCHANGED <<vars_bsp, vars_codec, vars_removal, vars_parallel, vars_lib>>

IDAllInit ==
    /\ salt \in {TagID, ScriptNodeID}
    /\ \E v \in 0..LimbMax : id_index = ToUsize(v)
    /\ id_raw = <<0, 0>>
    /\ id_made = IDPending
    /\ id_parsed = IDPending
    /\ id_reparsed = IDPending
    /\ id_of_index = IDPending
    /\ id_view = IDPending
    /\ pc = "id"
    /\ bsp = Baseline
    /\ point = <<0, 0, 0>>
    /\ index = UsizeZero
    /\ iter = 0
    /\ visited = <<>>
    /\ leaf_result = Pending
    /\ inside_result = Pending
    /\ bounds_result = Pending
    /\ CodecIdle
    /\ RemovalIdle
    /\ LibIdle
    /\ ParallelIdle

IDAllNext == FromUsize \/ ViewMade \/ FromIndex

SpecIDAll == IDAllInit /\ [][IDAllNext]_vars

\* C29: under the salts of TagID and ScriptNodeID, from_usize(i) for every i
\* up to 65535 is an ID with bit 31 set, not 0 and not 0xFFFFFFFF, whose
\* is_null() is false and whose index() is Some(i); from_index gives the null
\* ID for the Index 0xFFFF and an ID whose index() is Some(k) for any other
\* Index k.
C29_NeverNull ==
    /\ id_made # IDPending =>
           /\ id_made.kind = "Some"
           /\ id_made.value[1] >= 32768
           /\ id_made.value # <<0, 0>>
           /\ id_made.value # <<65535, 65535>>
    /\ id_view # IDPending =>
           /\ ~id_view.is_null
           /\ id_view.index = [some |-> TRUE, value |-> id_index]
    /\ id_of_index # IDPending =>
           IF id_of_index.from = 65535
           THEN id_of_index.value = <<65535, 65535>> /\ id_of_index.is_null
           ELSE id_of_index.index = [some |-> TRUE, value |-> ToUsize(id_of_index.from)]

\* TagID::from_usize(65535) is 0x9E8BFFFF, with index() Some(65535), and
\* from_index of the null Index is the null ID.
C29_Witness ==
    /\ salt = TagID
    /\ id_index = ToUsize(65535)
    /\ id_made = IDSome(<<40587, 65535>>)
    /\ id_view # IDPending
    /\ id_of_index # IDPending
    /\ id_of_index.value = NULL_ID

(***************************************************************************)
(* ASCIIString<LEN>: a fixed buffer of LEN bytes holding a C string.       *)
(* Bytes are the integers 0..255 and a buffer is a sequence of LEN of      *)
(* them, so buffer index q of the source is position q + 1 here.           *)
(***************************************************************************)

\* The const parameter LEN (String32 is ASCIIString<32>).
LEN == 3

\* u8::is_ascii and u8::is_ascii_control.
is_ascii(byte) == byte <= 127
is_ascii_control(byte) == byte <= 31 \/ byte = 127

ASCIIString_new == StrSome([i \in 1..LEN |-> 0])

\* The inner loop of from_bytes: bytes[q] = 0 for every q from `q` up.
ZeroRest(bytes, q) == [i \in 1..LEN |-> IF i - 1 >= q THEN 0 ELSE bytes[i]]

\* The scan with the tail left as it was given.
RECURSIVE ScanBytes_KeepTail(_, _)
ScanBytes_KeepTail(bytes, q) ==
    IF q >= LEN THEN StrSome(bytes)
    ELSE IF bytes[q + 1] = 0 THEN StrSome(bytes)
    ELSE IF ~is_ascii(bytes[q + 1]) \/ is_ascii_control(bytes[q + 1]) THEN StrNone
    ELSE ScanBytes_KeepTail(bytes, q + 1)

\* The outer loop of from_bytes from position q on.
RECURSIVE ScanBytes(_, _)
ScanBytes(bytes, q) ==
    IF q >= LEN THEN StrSome(bytes)
    ELSE IF bytes[q + 1] = 0 THEN StrSome(ZeroRest(bytes, q + 1))
    ELSE IF ~is_ascii(bytes[q + 1]) \/ is_ascii_control(bytes[q + 1]) THEN StrNone
    ELSE ScanBytes(bytes, q + 1)

\* from_bytes without the test of the last byte.
from_bytes_NoTerminatorCheck(bytes) == ScanBytes(bytes, 0)

from_bytes(bytes) == IF bytes[LEN] # 0 THEN StrNone ELSE ScanBytes(bytes, 0)

\* from_str: the bytes of the string copied to the front of a zeroed buffer.
from_str(str) ==
    IF Len(str) >= LEN THEN StrNone
    ELSE from_bytes([i \in 1..LEN |-> IF i <= Len(str) THEN str[i] ELSE 0])

\* as_cstr().to_bytes(): CStr::from_ptr reads up to the first 0x00 it finds,
\* the buffer's end is not known to it.
RECURSIVE CStrBytes(_, _)
CStrBytes(bytes, q) ==
    IF q >= Len(bytes) THEN <<"past the buffer">>
    ELSE IF bytes[q + 1] = 0 THEN <<>>
    ELSE <<bytes[q + 1]>> \o CStrBytes(bytes, q + 1)

as_cstr(bytes) == CStrBytes(bytes, 0)
as_str(bytes) == as_cstr(bytes)
string_len(bytes) == Len(as_cstr(bytes))

StringNew ==
    /\ pc = "string"
    /\ ascii_in.fn = "new"
    /\ ascii_out = StrPending
    /\ ascii_out' = ASCIIString_new
    /\ UNCHANGED <<ascii_in, ascii_view>>
    /\ UNCHANGED <<vars_bsp, vars_codec, vars_removal, vars_parallel, vars_id>>
    /\ UNCHANGED <<vars_nudge, vars_mode>>

StringFromBytes ==
    /\ pc = "string"
    /\ ascii_in.fn = "from_bytes"
    /\ ascii_out = StrPending
    /\ ascii_out' = from_bytes(ascii_in.arg)
    /\ UNCHANGED <<ascii_in, ascii_view>>
    /\ UNCHANGED <<vars_bsp, vars_codec, vars_removal, vars_parallel, vars_id>>
    /\ UNCHANGED <<vars_nudge, vars_mode>>

StringFromStr ==
    /\ pc = "string"
    /\ ascii_in.fn = "from_str"
    /\ ascii_out = StrPending
    /\ ascii_out' = from_str(ascii_in.arg)
    /\ UNCHANGED <<ascii_in, ascii_view>>
    /\ UNCHANGED <<vars_bsp, vars_codec, vars_removal, vars_parallel, vars_id>>
    /\ UNCHANGED <<vars_nudge, vars_mode>>

\* as_str() and string_len() of the value a constructor returned.
StringView ==
    /\ pc = "string"
    /\ ascii_out.kind = "Some"
    /\ ~ascii_view.taken
    /\ ascii_view' = [str |-> as_str(ascii_out.bytes),
                      len |-> string_len(ascii_out.bytes),
                      taken |-> TRUE]
    /\ UNCHANGED <<ascii_in, ascii_out>>
    /\ UNCHANGED <<vars_bsp, vars_codec, vars_removal, vars_parallel, vars_id>>
    /\ UNCHANGED <<vars_nudge, vars_mode>>

\* Bytes on both sides of each test of from_bytes.
ByteSamples == {0, 31, 32, 126, 127, 128, 255}
\* The UTF-8 encodings of U+0000, U+001F, ' ', '~', U+007F and U+0080.
CharSamples == {<<0>>, <<31>>, <<32>>, <<126>>, <<127>>, <<194, 128>>}

RECURSIVE Strings(_)
Strings(n) ==
    IF n = 0 THEN {<<>>}
    ELSE Strings(n - 1) \cup {s \o c : s \in Strings(n - 1), c \in CharSamples}

StringInit ==
    /\ \/ ascii_in = [fn |-> "new", arg |-> <<>>]
       \/ \E b \in [1..LEN -> ByteSamples] : ascii_in = [fn |-> "from_bytes", arg |-> b]
       \/ \E s \in Strings(LEN) : ascii_in = [fn |-> "from_str", arg |-> s]
    /\ ascii_out = StrPending
    /\ ascii_view = NoView
    /\ NudgeIdle
    /\ ModeIdle
    /\ pc = "string"
    /\ bsp = Baseline
    /\ point = <<0, 0, 0>>
    /\ index = UsizeZero
    /\ iter = 0
    /\ visited = <<>>
    /\ leaf_result = Pending
    /\ inside_result = Pending
    /\ bounds_result = Pending
    /\ CodecIdle
    /\ RemovalIdle
    /\ ParallelIdle
    /\ IDIdle

StringNext == StringNew \/ StringFromBytes \/ StringFromStr \/ StringView

SpecString == StringInit /\ [][StringNext]_vars

\* Position (from 1) of the first 0x00 of a buffer, Len + 1 if there is none.
FirstNul(b) ==
    IF \E i \in 1..Len(b) : b[i] = 0
    THEN CHOOSE i \in 1..Len(b) : b[i] = 0 /\ \A j \in 1..(i - 1) : b[j] # 0
    ELSE Len(b) + 1

PlainByte(byte) == 32 <= byte /\ byte <= 126

\* C21: every value made by new, from_bytes or from_str ends in 0x00, holds
\* only 0x00 from its first 0x00 on and only ASCII non-control bytes before
\* it, and its string_len() is below LEN.
C21_StringInvariant ==
    ascii_out.kind = "Some" =>
        LET b == ascii_out.bytes IN
        /\ Len(b) = LEN
        /\ b[LEN] = 0
        /\ \A i \in 1..LEN : i >= FirstNul(b) => b[i] = 0
        /\ \A i \in 1..LEN : i < FirstNul(b) => PlainByte(b[i])
        /\ ascii_view.taken =>
               /\ ascii_view.len < LEN
               /\ ascii_view.len = FirstNul(b) - 1

\* A buffer with a non-zero byte behind its first 0x00 was accepted and its
\* length read.
C21_Witness ==
    /\ ascii_in.fn = "from_bytes"
    /\ \E i \in 1..LEN : i > FirstNul(ascii_in.arg) /\ ascii_in.arg[i] # 0
    /\ ascii_out.kind = "Some"
    /\ ascii_view.taken

\* A byte from_bytes is documented to refuse: control (other than the
\* terminator itself) or not ASCII.
Offending(byte) == byte # 0 /\ ~PlainByte(byte)

C23_FromStrRoundTrip ==
    (ascii_in.fn = "from_str" /\ ascii_out # StrPending) =>
        LET s == ascii_in.arg IN
        /\ (Len(s) >= LEN \/ \E i \in 1..Len(s) : s[i] > 127) => ascii_out = StrNone
        /\ ascii_view.taken => ascii_view.str = s


(***************************************************************************)
(* fix_decimal_rounding.  A finite f32 is held as the decimal its Display  *)
(* form shows: the digits of the shortest decimal that reads back as the   *)
(* same f32, and how many of them stand behind the point.  Buffers hold    *)
(* the bytes themselves ('.' = 46, '0' = 48, '5' = 53, '9' = 57), so       *)
(* buffer index i of the source is position i + 1 here.                    *)
(***************************************************************************)

MAX_SIG_FIGS == 6

\* Longest digit string drawn as an input.
MaxDigits == 7

Finite(neg, digits, scale) ==
    [class |-> "finite", negative |-> neg, text |-> <<digits, scale>>]
NonFinite(c, neg) == [class |-> c, negative |-> neg, text |-> <<>>]

Zeros(n) == [i \in 1..n |-> 48]
Bytes(digits) == [i \in 1..Len(digits) |-> 48 + digits[i]]

\* Display for f32: no exponent, "0." and zeros before a pure fraction, no
\* point for a whole number.
Render(digits, scale) ==
    LET n == Len(digits) IN
    IF scale = 0 THEN Bytes(digits)
    ELSE IF scale >= n THEN <<48, 46>> \o Zeros(scale - n) \o Bytes(digits)
    ELSE Bytes(SubSeq(digits, 1, n - scale)) \o <<46>>
             \o Bytes(SubSeq(digits, n - scale + 1, n))

\* NudgeBuffer::default() up to its offset, with no byte left for a carry.
NudgeBuffer_default_NoCarry == <<>>

\* NudgeBuffer::default() up to its offset: one '0' left to carry a 1.
NudgeBuffer_default == <<48>>

\* The first loop from position i on, sig_figs_index being k: ignore_dot_iter
\* holds back the point and every '0' before the first other digit.  Yields
\* sig_figs_end (as the count of bytes before it), round_up, and the buffer
\* with every digit from the seventh on set to '0'.
RECURSIVE Truncate(_, _, _, _)
Truncate(w, i, first_sig_fig_found, k) ==
    IF i > Len(w) THEN [sig_figs_end |-> Len(w), round_up |-> FALSE, buf |-> w]
    ELSE IF w[i] = 46 \/ (~first_sig_fig_found /\ w[i] = 48)
         THEN Truncate(w, i + 1, first_sig_fig_found, k)
    ELSE LET rest == Truncate(IF k >= MAX_SIG_FIGS THEN [w EXCEPT ![i] = 48] ELSE w,
                              i + 1, TRUE, k + 1)
         IN IF k = MAX_SIG_FIGS
            THEN [sig_figs_end |-> i - 1, round_up |-> w[i] >= 53, buf |-> rest.buf]
            ELSE rest

\* The second loop: ignore_dot_iter reversed runs its filter from the back,
\* so first_sig_fig_found is set by the last byte of the window that is
\* neither the point nor '0'.
RECURSIVE RoundUp(_, _, _)
RoundUp(w, i, first_sig_fig_found) ==
    IF i = 0 THEN [buf |-> w, prepend_one |-> FALSE]
    ELSE IF w[i] = 46 \/ (~first_sig_fig_found /\ w[i] = 48)
         THEN RoundUp(w, i - 1, first_sig_fig_found)
    ELSE IF w[i] = 57
         THEN LET rest == RoundUp([w EXCEPT ![i] = 48], i - 1, TRUE)
              IN [buf |-> rest.buf, prepend_one |-> rest.prepend_one \/ i = 1]
    ELSE [buf |-> [w EXCEPT ![i] = w[i] + 1], prepend_one |-> FALSE]

\* str::parse of the buffer: the digits, and how many stand behind the point.
RECURSIVE StripLeading(_)
StripLeading(digits) ==
    IF Len(digits) > 1 /\ Head(digits) = 0 THEN StripLeading(Tail(digits)) ELSE digits

RECURSIVE StripTrailing(_, _)
StripTrailing(digits, scale) ==
    IF scale > 0 /\ Len(digits) > 1 /\ digits[Len(digits)] = 0
    THEN StripTrailing(SubSeq(digits, 1, Len(digits) - 1), scale - 1)
    ELSE <<digits, scale>>

Parse(w) ==
    LET dots == {i \in 1..Len(w) : w[i] = 46}
        scale == IF dots = {} THEN 0 ELSE Len(w) - (CHOOSE i \in dots : TRUE)
        digits == SelectSeq(w, LAMBDA b : b # 46)
        trimmed == StripTrailing([i \in 1..Len(digits) |-> digits[i] - 48], scale)
    IN <<StripLeading(trimmed[1]), trimmed[2]>>

\* `if !input.is_finite() { return input }`
NudgeNonFinite ==
    /\ pc = "nudge"
    /\ nudge_in.class # "finite"
    /\ nudge_out = NoFloat
    /\ nudge_out' = nudge_in
    /\ UNCHANGED <<nudge_in, nudge_buf, nudge_prepend>>
    /\ UNCHANGED <<vars_bsp, vars_codec, vars_removal, vars_parallel, vars_id>>
    /\ UNCHANGED <<vars_string, vars_mode>>

\* core::fmt::write(&mut buf, format_args!("{abs}"))
NudgeWrite ==
    /\ pc = "nudge"
    /\ nudge_in.class = "finite"
    /\ nudge_buf = <<>>
    /\ nudge_buf' = NudgeBuffer_default \o Render(nudge_in.text[1], nudge_in.text[2])
    /\ UNCHANGED <<nudge_in, nudge_prepend, nudge_out>>
    /\ UNCHANGED <<vars_bsp, vars_codec, vars_removal, vars_parallel, vars_id>>
    /\ UNCHANGED <<vars_string, vars_mode>>

\* `if written.len() <= MAX_SIG_FIGS { return input }`
NudgeShort ==
    /\ pc = "nudge"
    /\ nudge_buf # <<>>
    /\ nudge_out = NoFloat
    /\ Len(nudge_buf) <= MAX_SIG_FIGS
    /\ nudge_out' = nudge_in
    /\ UNCHANGED <<nudge_in, nudge_buf, nudge_prepend>>
    /\ UNCHANGED <<vars_bsp, vars_codec, vars_removal, vars_parallel, vars_id>>
    /\ UNCHANGED <<vars_string, vars_mode>>

\* The two loops, the assertion and the parse.
NudgeRound ==
    /\ pc = "nudge"
    /\ nudge_buf # <<>>
    /\ nudge_out = NoFloat
    /\ Len(nudge_buf) > MAX_SIG_FIGS
    /\ LET cut == Truncate(nudge_buf, 1, FALSE, 0)
           up == IF cut.round_up
                 THEN RoundUp(cut.buf, cut.sig_figs_end, FALSE)
                 ELSE [buf |-> cut.buf, prepend_one |-> FALSE]
       IN /\ nudge_buf' = up.buf
          /\ nudge_prepend' = up.prepend_one
          /\ LET f == Parse(up.buf)
             IN nudge_out' = Finite(nudge_in.negative, f[1], f[2])
    /\ UNCHANGED nudge_in
    /\ UNCHANGED <<vars_bsp, vars_codec, vars_removal, vars_parallel, vars_id>>
    /\ UNCHANGED <<vars_string, vars_mode>>

\* Digits on both sides of `>= b'5'` and of `== b'9'`.
DigitSamples == {0, 4, 5, 9}

\* Where the point stands in a decimal of n digits: none, two digits
\* behind it, one digit before it, "0." before the digits, "0.0" before them.
ScaleSamples(n) == {0, 2, n - 1, n, n + 1} \cap (0..(n + 1))

\* Shortest decimals: no leading zero, no trailing zero behind the point,
\* and "0.0" only before at most MAX_SIG_FIGS digits.
IsDecimal(d, scale) ==
    /\ d[1] # 0 \/ (Len(d) = 1 /\ scale = 0)
    /\ scale > 0 => d[Len(d)] # 0
    /\ scale > Len(d) => Len(d) <= MAX_SIG_FIGS

NudgeInit ==
    /\ \/ \E c \in {"nan", "inf"}, neg \in BOOLEAN : nudge_in = NonFinite(c, neg)
       \/ \E n \in 1..MaxDigits, neg \in BOOLEAN :
              \E d \in [1..n -> DigitSamples], scale \in ScaleSamples(n) :
                  /\ IsDecimal(d, scale)
                  /\ nudge_in = Finite(neg, d, scale)
    /\ nudge_buf = <<>>
    /\ nudge_prepend = FALSE
    /\ nudge_out = NoFloat
    /\ StringIdle
    /\ ModeIdle
    /\ pc = "nudge"
    /\ bsp = Baseline
    /\ point = <<0, 0, 0>>
    /\ index = UsizeZero
    /\ iter = 0
    /\ visited = <<>>
    /\ leaf_result = Pending
    /\ inside_result = Pending
    /\ bounds_result = Pending
    /\ CodecIdle
    /\ RemovalIdle
    /\ ParallelIdle
    /\ IDIdle

NudgeNext == NudgeNonFinite \/ NudgeWrite \/ NudgeShort \/ NudgeRound

SpecNudge == NudgeInit /\ [][NudgeNext]_vars


\* Decimal arithmetic on the digits, for stating what rounding should give.
RECURSIVE DigitsValue(_)
DigitsValue(d) ==
    IF d = <<>> THEN 0 ELSE 10 * DigitsValue(SubSeq(d, 1, Len(d) - 1)) + d[Len(d)]

RECURSIVE ValueDigits(_)
ValueDigits(v) == IF v < 10 THEN <<v>> ELSE ValueDigits(v \div 10) \o <<v % 10>>

\* Digits from the first to the last that is not zero.
RECURSIVE SigFigs(_)
SigFigs(d) ==
    IF Len(d) > 1 /\ d[Len(d)] = 0 THEN SigFigs(SubSeq(d, 1, Len(d) - 1)) ELSE Len(d)

\* The decimal rounded half up to MAX_SIG_FIGS significant figures.
RoundedToSix(d, scale) ==
    LET drop == Len(d) - MAX_SIG_FIGS
        kept == DigitsValue(d) \div (10 ^ drop)
        next == (DigitsValue(d) \div (10 ^ (drop - 1))) % 10
        v == (IF next >= 5 THEN kept + 1 ELSE kept) * (10 ^ drop)
    IN StripTrailing(ValueDigits(v), scale)

NudgeReturned == nudge_out # NoFloat

\* C24 as stated: a finite input shown with more than six significant digits
\* comes back as that decimal rounded half up to six significant figures,
\* sign kept; every other input comes back unchanged.
C24_RoundsToSixFigures ==
    NudgeReturned =>
        IF nudge_in.class = "finite" /\ SigFigs(nudge_in.text[1]) > MAX_SIG_FIGS
        THEN LET r == RoundedToSix(nudge_in.text[1], nudge_in.text[2])
             IN nudge_out = Finite(nudge_in.negative, r[1], r[2])
        ELSE nudge_out = nudge_in

\* The first six significant digits of the input are all 9 and the seventh
\* rounds up.
AllNines ==
    /\ nudge_in.class = "finite"
    /\ Len(nudge_in.text[1]) > MAX_SIG_FIGS
    /\ \A i \in 1..MAX_SIG_FIGS : nudge_in.text[1][i] = 9
    /\ nudge_in.text[1][MAX_SIG_FIGS + 1] >= 5

\* The input is 1 or more: its most significant digit is the first byte
\* written, right behind the byte left for the carry.
AtLeastOne == nudge_in.text[2] < Len(nudge_in.text[1])

\* C30: prepend_one is false at the assertion for every finite input: the
\* buffer starts with the '0' left by NudgeBuffer::default(), the passes leave
\* that byte '0' or make it '1', and when the six kept digits are all 9 and
\* the next rounds up, the carry out of the first digit leaves a single '1'
\* before zeros, in that byte when the first digit stands right behind it.
C30_CarryByteAbsorbs ==
    /\ ~nudge_prepend
    /\ nudge_buf # <<>> =>
           /\ nudge_buf[1] \in {48, 49}
           /\ ~NudgeReturned => nudge_buf[1] = 48
           /\ (NudgeReturned /\ AllNines) =>
                  /\ \E i \in 1..2 :
                         /\ nudge_buf[i] = 49
                         /\ \A j \in 1..Len(nudge_buf) :
                                j # i => nudge_buf[j] \in {46, 48}
                  /\ AtLeastOne => nudge_buf[1] = 49

\* 99999.99 went through both passes: 099999.99 became 100000.00.
C30_Witness ==
    /\ NudgeReturned
    /\ AllNines
    /\ nudge_in.text = <<<<9, 9, 9, 9, 9, 9, 9>>, 2>>
    /\ nudge_buf = <<49, 48, 48, 48, 48, 48, 46, 48, 48>>


(***************************************************************************)
(* UTF8Replacer.  CURRENT_REPLACER_MODE is a spin::RwLock: write() waits   *)
(* until no guard is out and read() until no write guard is out; a guard   *)
(* gives the lock back when it is dropped, at the end of the statement.    *)
(* Strings are sequences of code points.                                   *)
(***************************************************************************)

\* Threads calling into the replacer at once.
NumThreads == 3

UTF8Replacer_make(utf8, ascii) == [utf8 |-> utf8, ascii |-> ascii]
UTF8_DEGREES == UTF8Replacer_make(<<730>>, <<100, 101, 103>>)
UTF8_GREATER_THAN_OR_EQUAL_TO == UTF8Replacer_make(<<8805>>, <<62, 61>>)
UTF8_LESS_THAN_OR_EQUAL_TO == UTF8Replacer_make(<<8804>>, <<60, 61>>)
Replacers ==
    {UTF8_DEGREES, UTF8_GREATER_THAN_OR_EQUAL_TO, UTF8_LESS_THAN_OR_EQUAL_TO}

UTF8ReplacerMode == {"UTF8", "ASCII"}

\* One call: set_mode(arg), get_mode(), or the Display of `self`.  `at` is
\* where the call stands, `read` what it took from the lock, `reads` how
\* often it did, `out` what it wrote to the formatter.
Call(op, arg, self) ==
    [op |-> op, arg |-> arg, self |-> self, at |-> "start",
     read |-> "none", reads |-> 0, out |-> <<>>]

Calls ==
    {Call("set_mode", m, UTF8_DEGREES) : m \in UTF8ReplacerMode}
        \cup {Call("get_mode", "none", UTF8_DEGREES)}
        \cup {Call("fmt", "none", r) : r \in Replacers}

\* The match of fmt choosing the ascii form in either mode.
Form_AlwaysAscii(self, m) == self.ascii

\* The match of fmt: the form written for the mode read.
Form(self, m) == IF m = "UTF8" THEN self.utf8 ELSE self.ascii

\* CURRENT_REPLACER_MODE.write()
AcquireWrite(t) ==
    /\ threads[t].op = "set_mode"
    /\ threads[t].at = "start"
    /\ ~lock.writer
    /\ lock.readers = 0
    /\ lock' = [lock EXCEPT !.writer = TRUE]
    /\ threads' = [threads EXCEPT ![t].at = "locked"]
    /\ UNCHANGED <<mode, last_set>>

\* `*guard = mode`
Store(t) ==
    /\ threads[t].op = "set_mode"
    /\ threads[t].at = "locked"
    /\ mode' = threads[t].arg
    /\ threads' = [threads EXCEPT ![t].at = "stored"]
    /\ UNCHANGED <<lock, last_set>>

\* The write guard is dropped and set_mode returns.
ReleaseWrite(t) ==
    /\ threads[t].op = "set_mode"
    /\ threads[t].at = "stored"
    /\ lock' = [lock EXCEPT !.writer = FALSE]
    /\ last_set' = threads[t].arg
    /\ threads' = [threads EXCEPT ![t].at = "done"]
    /\ UNCHANGED mode

\* CURRENT_REPLACER_MODE.read(), in get_mode called directly or by fmt.
AcquireRead(t) ==
    /\ threads[t].op \in {"get_mode", "fmt"}
    /\ threads[t].at = "start"
    /\ ~lock.writer
    /\ lock' = [lock EXCEPT !.readers = @ + 1]
    /\ threads' = [threads EXCEPT ![t].at = "locked"]
    /\ UNCHANGED <<mode, last_set>>

\* `*guard`
Load(t) ==
    /\ threads[t].op \in {"get_mode", "fmt"}
    /\ threads[t].at = "locked"
    /\ threads' = [threads EXCEPT ![t].at = "loaded",
                                  ![t].read = mode,
                                  ![t].reads = @ + 1]
    /\ UNCHANGED <<mode, lock, last_set>>

\* The read guard is dropped and get_mode returns.
ReleaseRead(t) ==
    /\ threads[t].op \in {"get_mode", "fmt"}
    /\ threads[t].at = "loaded"
    /\ lock' = [lock EXCEPT !.readers = @ - 1]
    /\ threads' = [threads EXCEPT
                       ![t].at = IF threads[t].op = "fmt" THEN "matched" ELSE "done"]
    /\ UNCHANGED <<mode, last_set>>

\* f.write_str(self.utf8) or f.write_str(self.ascii)
WriteStr(t) ==
    /\ threads[t].op = "fmt"
    /\ threads[t].at = "matched"
    /\ threads' = [threads EXCEPT
                       ![t].at = "done",
                       ![t].out = @ \o Form(threads[t].self, threads[t].read)]
    /\ UNCHANGED <<mode, lock, last_set>>

ModeInit ==
    /\ mode = "UTF8"
    /\ lock = [writer |-> FALSE, readers |-> 0]
    /\ threads \in [1..NumThreads -> Calls]
    /\ last_set = "UTF8"
    /\ StringIdle
    /\ NudgeIdle
    /\ pc = "mode"
    /\ bsp = Baseline
    /\ point = <<0, 0, 0>>
    /\ index = UsizeZero
    /\ iter = 0
    /\ visited = <<>>
    /\ leaf_result = Pending
    /\ inside_result = Pending
    /\ bounds_result = Pending
    /\ CodecIdle
    /\ RemovalIdle
    /\ ParallelIdle
    /\ IDIdle

ModeStep(t) ==
    \/ AcquireWrite(t)
    \/ Store(t)
    \/ ReleaseWrite(t)
    \/ AcquireRead(t)
    \/ Load(t)
    \/ ReleaseRead(t)
    \/ WriteStr(t)

ModeNext ==
    /\ pc = "mode"
    /\ \E t \in DOMAIN threads : ModeStep(t)
    /\ UNCHANGED <<vars_bsp, vars_codec, vars_removal, vars_parallel, vars_id>>
    /\ UNCHANGED <<vars_string, vars_nudge>>

SpecMode == ModeInit /\ [][ModeNext]_vars

\* C25: the mode is one shared value, UTF8 until a set_mode has stored;
\* whenever no set_mode holds the lock it is the value of the last set_mode
\* that completed, and that is the value a get_mode reads; each Display reads
\* it once and writes the whole utf8 form or the whole ascii form of its
\* replacer, according to the value it read, whatever set_mode calls ran in
\* between.
C25_ModeShared ==
    /\ mode \in UTF8ReplacerMode
    /\ ~lock.writer => mode = last_set
    /\ (\A t \in DOMAIN threads :
            threads[t].op = "set_mode" => threads[t].at \in {"start", "locked"})
           => mode = "UTF8"
    /\ \A t \in DOMAIN threads :
           /\ threads[t].at = "loaded" => threads[t].read = last_set
           /\ threads[t].op = "fmt" =>
                  IF threads[t].at = "done"
                  THEN /\ threads[t].reads = 1
                       /\ threads[t].out =
                              (IF threads[t].read = "UTF8" THEN threads[t].self.utf8
                               ELSE threads[t].self.ascii)
                  ELSE threads[t].out = <<>>

\* A Display read ASCII, a later set_mode(UTF8) completed before it wrote,
\* and it wrote the whole ascii form.
C25_Witness ==
    \E t \in DOMAIN threads :
        /\ threads[t].op = "fmt"
        /\ threads[t].at = "done"
        /\ threads[t].read = "ASCII"
        /\ threads[t].out = threads[t].self.ascii
        /\ last_set = "UTF8"
        /\ mode = "UTF8"


(***************************************************************************)
(* The leaf loop's inclusive bound, the empty 3D node table, and providers *)
(* that resolve a 3D node at the index equal to the reported count (as an  *)
(* accepted provider must do for leaves).                                  *)
(***************************************************************************)

\* The provider resolves no leaf at an index of leaf_count or more.
NoLeafFromCount == \A l \in DOMAIN bsp.leaves : l < bsp.leaf_count

\* C26: bounds_check returns Ok only if get_leaf(leaf_count) resolves; when
\* the provider has no leaf at leaf_count or beyond, the verdict is the first
\* violation among the 3D nodes, the planes and the leaves below leaf_count,
\* and MissingLeaf(leaf_count) if there is none: never Ok.
C26_InclusiveLeafBound ==
    Validated =>
        /\ bounds_result = OkUnit => bsp.leaf_count \in DOMAIN bsp.leaves
        /\ NoLeafFromCount =>
               bounds_result =
                   FirstOf(ViolationsBeforeLeaves
                               \o ViolationsLeaves(0, bsp.leaf_count - 1)
                               \o <<Res("MissingLeaf", ToUsize(bsp.leaf_count))>>)

\* A dataset of one sound leaf and leaf_count 1, nothing else wrong with it,
\* was refused with MissingLeaf(1).
C26_Witness ==
    /\ Validated
    /\ bsp.leaf_count = 1
    /\ DOMAIN bsp.leaves = {0}
    /\ bounds_result = Res("MissingLeaf", ToUsize(1))

\* Datasets reporting no 3D node and resolving none at index 0, with the
\* plane and leaf tables sound or not.
FamilyNoRoot(d) ==
    \E s \in SUBSET {1} : \E t \in [s -> {Node3D(RawLeaf(0), NullIndex, ToUsize(0))}] :
    \E ps \in SUBSET (0..1) : \E pcount \in 0..MaxCount :
    \E ls \in SUBSET (0..1) : \E lcount \in 0..1 :
        d = [Baseline EXCEPT !.nodes = t, !.node_count = 0,
                             !.planes = [q \in ps |-> PlaneX], !.plane_count = pcount,
                             !.leaves = [l \in ls |-> Leaf(ToUsize(0), ToUsize(0))],
                             !.leaf_count = lcount]

\* Datasets of c reported 3D nodes that resolve node c as well.  Children
\* lead to node c, to leaf 0, to a leaf that does not resolve, or nowhere;
\* plane 2 does not resolve.
BeyondNodes(c) ==
    {Node3D(f, b, ToUsize(q)) :
        f \in {RawNode(c), RawLeaf(MaxLeafRef + 1)},
        b \in {RawNode(c), RawLeaf(0), NullIndex},
        q \in {0, 2}}
FamilyBeyond(d) ==
    \E c \in 1..MaxCount : \E t \in [0..c -> BeyondNodes(c)] :
        d = [Baseline EXCEPT !.nodes = t, !.node_count = c]

BeyondInit ==
    /\ FamilyNoRoot(bsp) \/ FamilyBeyond(bsp)
    /\ point \in Points
    /\ QueryInit
    /\ CodecIdle
    /\ RemovalIdle
    /\ LibIdle
    /\ ParallelIdle
    /\ IDIdle

SpecBeyond == BeyondInit /\ [][Next]_vars

NoRoot == bsp.node_count = 0 /\ 0 \notin DOMAIN bsp.nodes

\* C27: with a 3D node count of 0 and no node at index 0, bounds_check fails
\* with Missing3DNode(0) whatever the other tables hold, and
\* leaf_index_for_point, for every point, fetches index 0 once and fails with
\* Missing3DNode(0).
C27_EmptyTree ==
    NoRoot =>
        /\ bounds_result # Pending => bounds_result = Res("Missing3DNode", UsizeZero)
        /\ Returned =>
               /\ leaf_result = Res("Missing3DNode", UsizeZero)
               /\ iter = 1
               /\ visited = <<UsizeZero>>

\* A dataset with no 3D node, no plane behind a plane count of 2 and no leaf
\* was validated and queried.
C27_Witness ==
    /\ NoRoot
    /\ bsp.planes = <<>>
    /\ bsp.plane_count = 2
    /\ bsp.leaves = <<>>
    /\ Returned
    /\ leaf_result = Res("Missing3DNode", UsizeZero)
    /\ bounds_result = Res("Missing3DNode", UsizeZero)

\* C28 as stated: on a dataset bounds_check accepted, leaf_index_for_point
\* never fails with Missing3DNode or MissingPlane, and a leaf index it returns
\* resolves through get_leaf.
C28_AcceptedQueryResolves ==
    (bounds_result = OkUnit /\ Returned) =>
        /\ leaf_result.kind \notin {"Missing3DNode", "MissingPlane"}
        /\ leaf_result.kind = "Leaf" => ResolvesIn(bsp.leaves, leaf_result.index)

=============================================================================
